---- MODULE Spec2Model ----
(***************************************************************************)
(* DePIN-kit: the DePINManager device registry and the RewardDistribution  *)
(* reward ledger (contracts/contracts/*.sol) as one state machine.         *)
(*                                                                         *)
(* Amounts are counted in whole tokens (1 token = 10**18 wei), so          *)
(* BASE_REWARD_RATE = 100 and MIN_STAKE_AMOUNT = 1000.  Every transaction  *)
(* is one action; a reverted transaction leaves the contract state as it   *)
(* was and only records its error in ret.  The two functions that send     *)
(* value out under the reentrancy lock (claimRewards, withdrawStake) are   *)
(* split at the transfer, where the recipient's code runs: pc = "transfer" *)
(* is the position inside that call.  SpecCalls also splits                *)
(* distributeRewards at its call into the registry (pc = "addRewards").    *)
(* ret.events lists the events the last transaction emitted.               *)
(***************************************************************************)
EXTENDS Integers, Sequences, FiniteSets, TLC

\* ---------------------------------------------------------------- bounds
\* devices registered
MaxDevices == 2
\* measurements stored (_metricsCounter)
MaxMetrics == 2
\* successful slashDevice calls (_slashingCounter)
MaxSlashes == 2
\* stakedRewards, in multiples of MIN_STAKE_AMOUNT
MaxStakes == 1
\* successful distributeRewards calls
MaxDistributions == 2
\* block.timestamp
MaxTime == 1
\* totalRewards a direct addRewards call may reach
MaxAccrued == 15
\* value the ledger holds after a stake
MaxBalance == 2000
\* the largest value of an unsigned integer, in whole tokens: uint256 narrowed to
\* 16 bits, far above every amount the pool reaches
MaxUint == 65535

\* ------------------------------------------------------ program constants
BASE_REWARD_RATE == 100
SLASHING_PERCENTAGE == 10
MIN_STAKE_AMOUNT == 1000

\* ------------------------------------------------------------- addresses
Deployer == "owner"
Addr1 == "addr1"
LedgerAddr == "RewardDistribution"
RegistryAddr == "DePINManager"
ZeroAddr == "0x0"
Users == {Deployer, Addr1}

DeviceStatus == {"Inactive", "Active", "Paused", "Suspended"}
ViolationType == {"None", "Offline", "DataInconsistency", "MaliciousActivity"}

NOT_ENTERED == "NOT_ENTERED"
ENTERED == "ENTERED"

VARIABLES
    \* DePINManager
    regOwner, regPaused, deviceCounter, metricsCounter, devices,
    deviceMetrics, ownerDevices, deviceExists, allDeviceIds,
    \* RewardDistribution
    rdOwner, rdPaused, rdStatus, totalRewardPool, stakedRewards,
    distributedRewards, slashingHistory, canClaim, slashingCounter, balance,
    \* environment: block.timestamp, the call in flight, the last call's outcome
    now, pc, frame, saved, nested, ret,
    \* history: ids returned by registerDevice, value paid out per device by
    \* claimRewards, value credited per device by distributeRewards
    \* and the number of successful distributeRewards calls
    issued, paid, credited, distributions

regVars == <<regOwner, regPaused, deviceCounter, metricsCounter, devices,
             deviceMetrics, ownerDevices, deviceExists, allDeviceIds>>
rdVars == <<rdOwner, rdPaused, rdStatus, totalRewardPool, stakedRewards,
            distributedRewards, slashingHistory, canClaim, slashingCounter, balance>>
callVars == <<pc, frame, saved, nested>>
histVars == <<issued, paid, credited, distributions>>
vars == <<regVars, rdVars, now, callVars, ret, histVars>>

\* ------------------------------------------------------------- helpers
ZeroDevice == [id |-> 0, owner |-> ZeroAddr, metadataURI |-> "", status |-> "Inactive",
               totalRewards |-> 0, registrationTime |-> 0, lastReportTime |-> 0]

\* devices[_deviceId] of a Solidity mapping: the zero struct where nothing was stored
DeviceAt(id) == IF id \in DOMAIN devices THEN devices[id] ELSE ZeroDevice

NoFrame == [op |-> "", sender |-> "", id |-> 0, to |-> "", amount |-> 0]
NoSaved == [canClaim |-> <<>>, totalRewardPool |-> 0, stakedRewards |-> 0,
            distributedRewards |-> 0, balance |-> 0, paid |-> <<>>]
NoNested == [op |-> "", err |-> ""]

Ret(op, sender, id, amount, kind, err, val) ==
    [op |-> op, sender |-> sender, id |-> id, amount |-> amount, kind |-> kind,
     err |-> err, val |-> val, nested |-> "", events |-> <<>>]

\* one notification: the emitting contract, the event's name and its arguments
\* (the argument positions an event does not have are 0 or "")
Event(emitter, name, deviceId, account, amount, info) ==
    [emitter |-> emitter, name |-> name, deviceId |-> deviceId, account |-> account,
     amount |-> amount, info |-> info, metricId |-> 0, timestamp |-> now]

\* MetricsReported(deviceId, metricId, value, dataType, block.timestamp)
MetricsReported(deviceId, metricId, value, dataType) ==
    [Event("DePINManager", "MetricsReported", deviceId, "", value, dataType)
     EXCEPT !.metricId = metricId]

\* the outcome r of a transaction that committed the notifications evs
Emit(r, evs) == [r EXCEPT !.events = evs]

\* the first failing require of a list of <<condition, message>> pairs, "" if none
RECURSIVE FirstError(_)
FirstError(checks) ==
    IF checks = <<>> THEN ""
    ELSE IF ~checks[1][1] THEN checks[1][2]
    ELSE FirstError(Tail(checks))

Idle == pc = "idle"

Init ==
    /\ regOwner = Deployer
    /\ regPaused = FALSE
    /\ deviceCounter = 0
    /\ metricsCounter = 0
    /\ devices = <<>>
    /\ deviceMetrics = [i \in 1..MaxDevices |-> <<>>]
    /\ ownerDevices = [a \in Users |-> <<>>]
    /\ deviceExists = {}
    /\ allDeviceIds = <<>>
    /\ rdOwner = Deployer
    /\ rdPaused = FALSE
    /\ rdStatus = NOT_ENTERED
    /\ totalRewardPool = 0
    /\ stakedRewards = 0
    /\ distributedRewards = 0
    /\ slashingHistory = [i \in 1..MaxDevices |-> <<>>]
    /\ canClaim = [i \in 1..MaxDevices |-> FALSE]
    /\ slashingCounter = 0
    /\ balance = 0
    /\ now = 0
    /\ pc = "idle"
    /\ frame = NoFrame
    /\ saved = NoSaved
    /\ nested = NoNested
    /\ ret = Ret("constructor", Deployer, 0, 0, "", "", 0)
    /\ issued = <<>>
    /\ paid = [i \in 1..MaxDevices |-> 0]
    /\ credited = [i \in 1..MaxDevices |-> 0]
    /\ distributions = 0

\* a reverted transaction: nothing changes but the reported outcome
Revert(r) ==
    /\ ret' = r
    /\ UNCHANGED <<regVars, rdVars, now, callVars, histVars>>

Tick ==
    /\ Idle
    /\ now < MaxTime
    /\ now' = now + 1
    /\ ret' = Ret("tick", "", 0, 0, "", "", 0)
    /\ UNCHANGED <<regVars, rdVars, callVars, histVars>>

\* the sum of totalRewards over the devices ids
RECURSIVE AccruedOver(_)
AccruedOver(ids) ==
    IF ids = {} THEN 0
    ELSE LET d == CHOOSE x \in ids : TRUE
         IN devices[d].totalRewards + AccruedOver(ids \ {d})

\* the registry's ledger: totalRewards summed over all registered devices
AccruedTotal == AccruedOver(DOMAIN devices)

\* ================================================================ Ownable
\* OpenZeppelin Ownable, inherited by both contracts: onlyOwner
OnlyOwnerErr(owner, sender) ==
    IF owner = sender THEN "" ELSE "OwnableUnauthorizedAccount"

\* ========================================================== DePINManager
\* the id taken before the counter is advanced
NewDeviceId_stale == deviceCounter

\* registerDevice: _deviceCounter++; deviceId = _deviceCounter
NewDeviceId == deviceCounter + 1

\* registerDevice stopped by the pause of either contract
registerDevice_err_globalPause ==
    FirstError(<< <<~regPaused /\ ~rdPaused, "EnforcedPause">> >>)

\* registerDevice: whenNotPaused
registerDevice_err == FirstError(<< <<~regPaused, "EnforcedPause">> >>)

registerDevice(sender, uri) ==
    /\ Idle
    /\ deviceCounter < MaxDevices
    /\ LET err == registerDevice_err
           deviceId == NewDeviceId
       IN IF err # "" THEN Revert(Ret("registerDevice", sender, 0, 0, uri, err, 0))
          ELSE /\ deviceCounter' = deviceCounter + 1
               /\ devices' = [i \in DOMAIN devices \cup {deviceId} |->
                                IF i = deviceId
                                THEN [id |-> deviceId, owner |-> sender,
                                      metadataURI |-> uri, status |-> "Active",
                                      totalRewards |-> 0, registrationTime |-> now,
                                      lastReportTime |-> now]
                                ELSE devices[i]]
               /\ deviceExists' = deviceExists \cup {deviceId}
               /\ ownerDevices' = [ownerDevices EXCEPT ![sender] = Append(@, deviceId)]
               /\ allDeviceIds' = Append(allDeviceIds, deviceId)
               /\ issued' = Append(issued, deviceId)
               /\ ret' = Emit(Ret("registerDevice", sender, deviceId, 0, uri, "", deviceId),
                               <<Event("DePINManager", "DeviceRegistered", deviceId,
                                       sender, 0, uri)>>)
               /\ UNCHANGED <<regOwner, regPaused, metricsCounter, deviceMetrics,
                              rdVars, now, callVars, paid, credited,
                              distributions>>

\* onlyActiveDevice turning away Suspended devices only
reportMetrics_err_suspendedOnly(sender, id) ==
    FirstError(<< <<DeviceAt(id).owner = sender, "Not device owner">>,
                  <<id \in deviceExists, "Device does not exist">>,
                  <<DeviceAt(id).status # "Suspended", "Device not active">>,
                  <<~regPaused, "EnforcedPause">> >>)

\* the modifiers in another order: onlyActiveDevice before onlyDeviceOwner
reportMetrics_err_activeFirst(sender, id) ==
    FirstError(<< <<id \in deviceExists, "Device does not exist">>,
                  <<DeviceAt(id).status = "Active", "Device not active">>,
                  <<DeviceAt(id).owner = sender, "Not device owner">>,
                  <<~regPaused, "EnforcedPause">> >>)

\* a record stored as verified
MetricData_verified(id, value, dataType) ==
    [deviceId |-> id, timestamp |-> now, value |-> value, dataType |-> dataType,
     isVerified |-> TRUE]

\* MetricData({deviceId, timestamp: block.timestamp, value, dataType, isVerified: false})
MetricData(id, value, dataType) ==
    [deviceId |-> id, timestamp |-> now, value |-> value, dataType |-> dataType,
     isVerified |-> FALSE]

\* reportMetrics: onlyDeviceOwner, onlyActiveDevice, whenNotPaused, in that order
reportMetrics_err(sender, id) ==
    FirstError(<< <<DeviceAt(id).owner = sender, "Not device owner">>,
                  <<id \in deviceExists, "Device does not exist">>,
                  <<DeviceAt(id).status = "Active", "Device not active">>,
                  <<~regPaused, "EnforcedPause">> >>)

reportMetrics(sender, id, value, dataType) ==
    /\ Idle
    /\ LET err == reportMetrics_err(sender, id)
       IN IF err # "" THEN Revert(Ret("reportMetrics", sender, id, value, dataType, err, 0))
          ELSE /\ metricsCounter < MaxMetrics
               /\ metricsCounter' = metricsCounter + 1
               /\ deviceMetrics' = [deviceMetrics EXCEPT ![id] =
                      Append(@, MetricData(id, value, dataType))]
               /\ devices' = [devices EXCEPT ![id].lastReportTime = now]
               /\ ret' = Emit(Ret("reportMetrics", sender, id, value, dataType, "",
                                  metricsCounter + 1),
                              <<MetricsReported(id, metricsCounter + 1, value,
                                                dataType)>>)
               /\ UNCHANGED <<regOwner, regPaused, deviceCounter, ownerDevices,
                              deviceExists, allDeviceIds, rdVars, now, callVars, histVars>>

\* a transition graph in which Suspended is final
updateDeviceStatus_err_suspendedFinal(sender, id) ==
    FirstError(<< <<OnlyOwnerErr(regOwner, sender) = "", "OwnableUnauthorizedAccount">>,
                  <<id \in deviceExists, "Device does not exist">>,
                  <<DeviceAt(id).status # "Suspended", "Device suspended">> >>)

\* updateDeviceStatus: onlyOwner, then the require on deviceExists
updateDeviceStatus_err(sender, id) ==
    FirstError(<< <<OnlyOwnerErr(regOwner, sender) = "", "OwnableUnauthorizedAccount">>,
                  <<id \in deviceExists, "Device does not exist">> >>)

updateDeviceStatus(sender, id, newStatus) ==
    /\ Idle
    /\ LET err == updateDeviceStatus_err(sender, id)
       IN IF err # "" THEN Revert(Ret("updateDeviceStatus", sender, id, 0, newStatus, err, 0))
          ELSE /\ devices' = [devices EXCEPT ![id].status = newStatus]
               /\ ret' = Emit(Ret("updateDeviceStatus", sender, id, 0, newStatus, "", 0),
                              <<Event("DePINManager", "DeviceStatusUpdated", id, "",
                                      0, newStatus)>>)
               /\ UNCHANGED <<regOwner, regPaused, deviceCounter, metricsCounter,
                              deviceMetrics, ownerDevices, deviceExists, allDeviceIds,
                              rdVars, now, callVars, histVars>>

\* addRewards: onlyOwner of the registry; msg.sender is the immediate caller, which
\* is the RewardDistribution contract when the call comes from distributeRewards
addRewards_err(sender, id) ==
    FirstError(<< <<OnlyOwnerErr(regOwner, sender) = "", "OwnableUnauthorizedAccount">>,
                  <<id \in deviceExists, "Device does not exist">> >>)

\* a credit that also stamps the device with the current time
addRewards_devices_restamp(id, amount) ==
    [devices EXCEPT ![id].totalRewards = @ + amount, ![id].registrationTime = now]

\* the reward assigned instead of added
addRewards_devices_assign(id, amount) ==
    [devices EXCEPT ![id].totalRewards = amount]

\* devices[_deviceId].totalRewards += _amount
addRewards_devices(id, amount) ==
    [devices EXCEPT ![id].totalRewards = @ + amount]

addRewards(sender, id, amount) ==
    /\ Idle
    /\ LET err == addRewards_err(sender, id)
       IN IF err # "" THEN Revert(Ret("addRewards", sender, id, amount, "", err, 0))
          ELSE /\ devices[id].totalRewards + amount <= MaxAccrued
               /\ devices' = addRewards_devices(id, amount)
               /\ ret' = Emit(Ret("addRewards", sender, id, amount, "", "", 0),
                              <<Event("DePINManager", "RewardsDistributed", id, "",
                                      amount, "")>>)
               /\ UNCHANGED <<regOwner, regPaused, deviceCounter, metricsCounter,
                              deviceMetrics, ownerDevices, deviceExists, allDeviceIds,
                              rdVars, now, callVars, histVars>>

\* Pausable._pause / _unpause behind onlyOwner
regPause(sender) ==
    /\ Idle
    /\ LET err == FirstError(<< <<OnlyOwnerErr(regOwner, sender) = "", "OwnableUnauthorizedAccount">>,
                                <<~regPaused, "EnforcedPause">> >>)
       IN IF err # "" THEN Revert(Ret("DePINManager.pause", sender, 0, 0, "", err, 0))
          ELSE /\ regPaused' = TRUE
               /\ ret' = Ret("DePINManager.pause", sender, 0, 0, "", "", 0)
               /\ UNCHANGED <<regOwner, deviceCounter, metricsCounter, devices,
                              deviceMetrics, ownerDevices, deviceExists, allDeviceIds,
                              rdVars, now, callVars, histVars>>

regUnpause(sender) ==
    /\ Idle
    /\ LET err == FirstError(<< <<OnlyOwnerErr(regOwner, sender) = "", "OwnableUnauthorizedAccount">>,
                                <<regPaused, "ExpectedPause">> >>)
       IN IF err # "" THEN Revert(Ret("DePINManager.unpause", sender, 0, 0, "", err, 0))
          ELSE /\ regPaused' = FALSE
               /\ ret' = Ret("DePINManager.unpause", sender, 0, 0, "", "", 0)
               /\ UNCHANGED <<regOwner, deviceCounter, metricsCounter, devices,
                              deviceMetrics, ownerDevices, deviceExists, allDeviceIds,
                              rdVars, now, callVars, histVars>>

\* Ownable.transferOwnership of the registry (newOwner is never the zero address here)
regTransferOwnership(sender, newOwner) ==
    /\ Idle
    /\ LET err == OnlyOwnerErr(regOwner, sender)
       IN IF err # "" THEN Revert(Ret("DePINManager.transferOwnership", sender, 0, 0, newOwner, err, 0))
          ELSE /\ regOwner' = newOwner
               /\ ret' = Ret("DePINManager.transferOwnership", sender, 0, 0, newOwner, "", 0)
               /\ UNCHANGED <<regPaused, deviceCounter, metricsCounter, devices,
                              deviceMetrics, ownerDevices, deviceExists, allDeviceIds,
                              rdVars, now, callVars, histVars>>

\* ==================================================== RewardDistribution
\* modifier validDevice: _deviceId > 0 && _deviceId <= depinManager.getTotalDevices()
validDevice(id) == id > 0 /\ id <= deviceCounter

\* the entry points without the reentrancy lock
nonReentrantOk_unguarded == TRUE

\* modifier nonReentrant (ReentrancyGuard): fails while the lock is held
nonReentrantOk == rdStatus # ENTERED

\* a reward that ignores the number of reports
_calculateRewards_flat(metricCount) == BASE_REWARD_RATE

_calculateRewards(metricCount) == BASE_REWARD_RATE * metricCount

\* stakeRewards without the require on MIN_STAKE_AMOUNT
stakeRewards_err_noMinimum(sender, amount, value) ==
    FirstError(<< <<OnlyOwnerErr(rdOwner, sender) = "", "OwnableUnauthorizedAccount">>,
                  <<~rdPaused, "EnforcedPause">>,
                  <<value >= amount, "Insufficient value sent">> >>)

\* stakeRewards: onlyOwner, whenNotPaused, then the two requires
stakeRewards_err(sender, amount, value) ==
    FirstError(<< <<OnlyOwnerErr(rdOwner, sender) = "", "OwnableUnauthorizedAccount">>,
                  <<~rdPaused, "EnforcedPause">>,
                  <<value >= amount, "Insufficient value sent">>,
                  <<amount >= MIN_STAKE_AMOUNT, "Below minimum stake amount">> >>)

stakeRewards(sender, amount, value) ==
    /\ Idle
    /\ LET err == stakeRewards_err(sender, amount, value)
       IN IF err # "" THEN Revert(Ret("stakeRewards", sender, 0, amount, "", err, value))
          ELSE /\ stakedRewards + amount <= MaxStakes * MIN_STAKE_AMOUNT
               /\ balance + value <= MaxBalance
               /\ stakedRewards' = stakedRewards + amount
               /\ totalRewardPool' = totalRewardPool + amount
               /\ balance' = balance + value
               /\ ret' = Emit(Ret("stakeRewards", sender, 0, amount, "", "", value),
                              <<Event("RewardDistribution", "RewardsStaked", 0, sender,
                                      amount, "")>>)
               /\ UNCHANGED <<regVars, rdOwner, rdPaused, rdStatus, distributedRewards,
                              slashingHistory, canClaim, slashingCounter, now,
                              callVars, histVars>>

\* a distribution announced by the ledger alone
DistributeEvents_ledgerOnly(id, rewardAmount) ==
    <<Event("RewardDistribution", "RewardsDistributed", id, "", rewardAmount, "")>>

\* the notifications of a distribution: RewardsDistributed from the registry's
\* addRewards, then RewardsDistributed from the ledger
DistributeEvents(id, rewardAmount) ==
    <<Event("DePINManager", "RewardsDistributed", id, "", rewardAmount, ""),
      Event("RewardDistribution", "RewardsDistributed", id, "", rewardAmount, "")>>

\* distributeRewards up to its call into the registry: onlyOwner, validDevice,
\* whenNotPaused, nonReentrant, then the two pool requires; the multiplication in
\* _calculateRewards and the addition distributedRewards + rewardAmount are checked
\* arithmetic and revert with Panic(0x11) beyond the integer range
distributeRewards_entry_err(sender, id, metricCount) ==
    FirstError(<< <<OnlyOwnerErr(rdOwner, sender) = "", "OwnableUnauthorizedAccount">>,
                  <<validDevice(id), "Invalid device ID">>,
                  <<~rdPaused, "EnforcedPause">>,
                  <<nonReentrantOk, "ReentrancyGuardReentrantCall">>,
                  <<totalRewardPool >= distributedRewards, "Insufficient reward pool">>,
                  <<BASE_REWARD_RATE * metricCount <= MaxUint, "Panic(0x11)">>,
                  <<distributedRewards + BASE_REWARD_RATE * metricCount <= MaxUint,
                    "Panic(0x11)">>,
                  <<totalRewardPool >= distributedRewards + _calculateRewards(metricCount),
                    "Insufficient rewards available">> >>)

\* distributeRewards as a whole: the checks before the call, then the call into
\* DePINManager.addRewards as LedgerAddr
distributeRewards_err(sender, id, metricCount) ==
    FirstError(<< <<distributeRewards_entry_err(sender, id, metricCount) = "",
                    distributeRewards_entry_err(sender, id, metricCount)>>,
                  <<addRewards_err(LedgerAddr, id) = "", addRewards_err(LedgerAddr, id)>> >>)

distributeRewards(sender, id, metricCount) ==
    /\ Idle
    /\ LET err == distributeRewards_err(sender, id, metricCount)
           rewardAmount == _calculateRewards(metricCount)
       IN IF err # "" THEN Revert(Ret("distributeRewards", sender, id, metricCount, "", err, 0))
          ELSE /\ distributions < MaxDistributions
               /\ distributions' = distributions + 1
               /\ distributedRewards' = distributedRewards + rewardAmount
               /\ devices' = addRewards_devices(id, rewardAmount)
               /\ canClaim' = [canClaim EXCEPT ![id] = TRUE]
               /\ credited' = [credited EXCEPT ![id] = @ + rewardAmount]
               /\ ret' = Emit(Ret("distributeRewards", sender, id, metricCount, "", "",
                                  rewardAmount),
                              DistributeEvents(id, rewardAmount))
               /\ UNCHANGED <<regOwner, regPaused, deviceCounter, metricsCounter,
                              deviceMetrics, ownerDevices, deviceExists, allDeviceIds,
                              rdOwner, rdPaused, rdStatus, totalRewardPool, stakedRewards,
                              slashingHistory, slashingCounter, balance, now, callVars,
                              issued, paid>>

\* a snapshot that loses the canClaim flags: the write canClaim = false of a claim
\* outlives the revert
Snapshot_flagsCleared ==
    [canClaim |-> [i \in DOMAIN canClaim |-> FALSE], totalRewardPool |-> totalRewardPool,
     stakedRewards |-> stakedRewards, distributedRewards |-> distributedRewards,
     balance |-> balance, paid |-> paid]

\* what a revert of the transaction in flight restores, and what it had paid before
Snapshot == [canClaim |-> canClaim, totalRewardPool |-> totalRewardPool,
             stakedRewards |-> stakedRewards, distributedRewards |-> distributedRewards,
             balance |-> balance, paid |-> paid]

\* distributeRewards at the grain of its external call.  distributeRewardsEnter
\* runs the function up to depinManager.addRewards(...): the lock is taken and
\* distributedRewards is raised; pc = "addRewards" is the position inside the call.
distributeRewardsEnter(sender, id, metricCount) ==
    /\ Idle
    /\ LET err == distributeRewards_entry_err(sender, id, metricCount)
           rewardAmount == _calculateRewards(metricCount)
       IN IF err # "" THEN Revert(Ret("distributeRewards", sender, id, metricCount, "", err, 0))
          ELSE /\ distributions < MaxDistributions
               /\ rdStatus' = ENTERED
               /\ distributedRewards' = distributedRewards + rewardAmount
               /\ pc' = "addRewards"
               /\ frame' = [op |-> "distributeRewards", sender |-> sender, id |-> id,
                            to |-> RegistryAddr, amount |-> rewardAmount]
               /\ saved' = Snapshot
               /\ nested' = NoNested
               /\ ret' = Ret("distributeRewards", sender, id, metricCount, "", "pending", 0)
               /\ UNCHANGED <<regVars, rdOwner, rdPaused, totalRewardPool, stakedRewards,
                              slashingHistory, canClaim, slashingCounter, balance, now,
                              histVars>>

\* addRewards accepted the call: the registry credits the device, the ledger sets
\* canClaim, emits and releases the lock
addRewardsReturn ==
    /\ pc = "addRewards"
    /\ addRewards_err(LedgerAddr, frame.id) = ""
    /\ devices' = addRewards_devices(frame.id, frame.amount)
    /\ canClaim' = [canClaim EXCEPT ![frame.id] = TRUE]
    /\ credited' = [credited EXCEPT ![frame.id] = @ + frame.amount]
    /\ distributions' = distributions + 1
    /\ rdStatus' = NOT_ENTERED
    /\ ret' = Emit(Ret("distributeRewards", frame.sender, frame.id,
                       frame.amount \div BASE_REWARD_RATE, "", "", frame.amount),
                   DistributeEvents(frame.id, frame.amount))
    /\ pc' = "idle"
    /\ frame' = NoFrame
    /\ saved' = NoSaved
    /\ nested' = NoNested
    /\ UNCHANGED <<regOwner, regPaused, deviceCounter, metricsCounter, deviceMetrics,
                   ownerDevices, deviceExists, allDeviceIds, rdOwner, rdPaused,
                   totalRewardPool, stakedRewards, distributedRewards, slashingHistory,
                   slashingCounter, balance, now, issued, paid>>

\* the failure of addRewards caught instead of propagated: the error is reported
\* but the increase of distributedRewards stays
addRewardsRevert_caught ==
    /\ pc = "addRewards"
    /\ addRewards_err(LedgerAddr, frame.id) # ""
    /\ rdStatus' = NOT_ENTERED
    /\ ret' = Ret("distributeRewards", frame.sender, frame.id,
                  frame.amount \div BASE_REWARD_RATE, "",
                  addRewards_err(LedgerAddr, frame.id), 0)
    /\ pc' = "idle"
    /\ frame' = NoFrame
    /\ saved' = NoSaved
    /\ nested' = NoNested
    /\ UNCHANGED <<regVars, rdOwner, rdPaused, totalRewardPool, stakedRewards,
                   distributedRewards, slashingHistory, canClaim, slashingCounter,
                   balance, now, histVars>>

\* addRewards rejected the call: the revert propagates and the whole transaction is
\* undone, the increase of distributedRewards included
addRewardsRevert ==
    /\ pc = "addRewards"
    /\ addRewards_err(LedgerAddr, frame.id) # ""
    /\ distributedRewards' = saved.distributedRewards
    /\ rdStatus' = NOT_ENTERED
    /\ ret' = Ret("distributeRewards", frame.sender, frame.id,
                  frame.amount \div BASE_REWARD_RATE, "",
                  addRewards_err(LedgerAddr, frame.id), 0)
    /\ pc' = "idle"
    /\ frame' = NoFrame
    /\ saved' = NoSaved
    /\ nested' = NoNested
    /\ UNCHANGED <<regVars, rdOwner, rdPaused, totalRewardPool, stakedRewards,
                   slashingHistory, canClaim, slashingCounter, balance, now, histVars>>

\* the division rounded up instead of down
SlashAmount_roundUp(id, pct) == (DeviceAt(id).totalRewards * pct + 99) \div 100

\* the contract's fixed SLASHING_PERCENTAGE used in place of the argument
SlashAmount_fixedRate(id, pct) == (DeviceAt(id).totalRewards * SLASHING_PERCENTAGE) \div 100

\* slashAmount = (totalRewards * _slashPercentage) / 100, integer division
SlashAmount(id, pct) == (DeviceAt(id).totalRewards * pct) \div 100

\* slashDevice with validDevice ahead of onlyOwner
slashDevice_err_deviceFirst(sender, id, kind, pct) ==
    FirstError(<< <<validDevice(id), "Invalid device ID">>,
                  <<OnlyOwnerErr(rdOwner, sender) = "", "OwnableUnauthorizedAccount">>,
                  <<~rdPaused, "EnforcedPause">>,
                  <<pct <= 100, "Invalid slash percentage">>,
                  <<kind # "None", "Invalid violation type">>,
                  <<id \in deviceExists, "Device does not exist">>,
                  <<SlashAmount(id, pct) > 0, "No rewards to slash">> >>)

\* slashDevice: onlyOwner, validDevice, whenNotPaused, then the requires of the body
slashDevice_err(sender, id, kind, pct) ==
    FirstError(<< <<OnlyOwnerErr(rdOwner, sender) = "", "OwnableUnauthorizedAccount">>,
                  <<validDevice(id), "Invalid device ID">>,
                  <<~rdPaused, "EnforcedPause">>,
                  <<pct <= 100, "Invalid slash percentage">>,
                  <<kind # "None", "Invalid violation type">>,
                  <<id \in deviceExists, "Device does not exist">>,
                  <<SlashAmount(id, pct) > 0, "No rewards to slash">> >>)

slashDevice(sender, id, kind, pct) ==
    /\ Idle
    /\ LET err == slashDevice_err(sender, id, kind, pct)
           slashAmount == SlashAmount(id, pct)
       IN IF err # "" THEN Revert(Ret("slashDevice", sender, id, pct, kind, err, 0))
          ELSE /\ slashingCounter < MaxSlashes
               /\ slashingCounter' = slashingCounter + 1
               /\ slashingHistory' = [slashingHistory EXCEPT ![id] =
                      Append(@, [deviceId |-> id, violationType |-> kind,
                                 amount |-> slashAmount, timestamp |-> now,
                                 resolved |-> FALSE])]
               /\ canClaim' = [canClaim EXCEPT ![id] = FALSE]
               /\ totalRewardPool' = totalRewardPool + slashAmount
               /\ ret' = Emit(Ret("slashDevice", sender, id, pct, kind, "", slashAmount),
                              <<Event("RewardDistribution", "DeviceSlashed", id, "",
                                      slashAmount, kind)>>)
               /\ UNCHANGED <<regVars, rdOwner, rdPaused, rdStatus, stakedRewards,
                              distributedRewards, balance, now, callVars, histVars>>

\* the sum of the amounts of the slashing events in a device's history
RECURSIVE SlashedOver(_)
SlashedOver(history) ==
    IF history = <<>> THEN 0
    ELSE Head(history).amount + SlashedOver(Tail(history))

\* the total that slashes of the device id have added to totalRewardPool
SlashedTotal(id) == SlashedOver(slashingHistory[id])

\* claimRewards without the check of the caller against the device's owner
claimRewards_err_anyCaller(sender, id) ==
    FirstError(<< <<validDevice(id), "Invalid device ID">>,
                  <<~rdPaused, "EnforcedPause">>,
                  <<nonReentrantOk, "ReentrancyGuardReentrantCall">>,
                  <<id \in DOMAIN canClaim /\ canClaim[id], "No claimable rewards">>,
                  <<id \in deviceExists, "Device does not exist">>,
                  <<totalRewardPool >= DeviceAt(id).totalRewards, "Insufficient pool balance">>,
                  <<DeviceAt(id).totalRewards > 0, "No rewards to claim">> >>)

\* claimRewards with the owner checked before canClaim
claimRewards_err_ownerFirst(sender, id) ==
    FirstError(<< <<validDevice(id), "Invalid device ID">>,
                  <<~rdPaused, "EnforcedPause">>,
                  <<nonReentrantOk, "ReentrancyGuardReentrantCall">>,
                  <<id \in deviceExists, "Device does not exist">>,
                  <<DeviceAt(id).owner = sender, "Not device owner">>,
                  <<id \in DOMAIN canClaim /\ canClaim[id], "No claimable rewards">>,
                  <<totalRewardPool >= DeviceAt(id).totalRewards, "Insufficient pool balance">>,
                  <<DeviceAt(id).totalRewards > 0, "No rewards to claim">> >>)

\* claimRewards up to its transfer: validDevice, whenNotPaused, nonReentrant, then
\* the requires of the body
claimRewards_err(sender, id) ==
    FirstError(<< <<validDevice(id), "Invalid device ID">>,
                  <<~rdPaused, "EnforcedPause">>,
                  <<nonReentrantOk, "ReentrancyGuardReentrantCall">>,
                  <<id \in DOMAIN canClaim /\ canClaim[id], "No claimable rewards">>,
                  <<id \in deviceExists, "Device does not exist">>,
                  <<DeviceAt(id).owner = sender, "Not device owner">>,
                  <<totalRewardPool >= DeviceAt(id).totalRewards, "Insufficient pool balance">>,
                  <<DeviceAt(id).totalRewards > 0, "No rewards to claim">> >>)

claimRewards(sender, id) ==
    /\ Idle
    /\ LET err == claimRewards_err(sender, id)
           device == DeviceAt(id)
       IN IF err # "" THEN Revert(Ret("claimRewards", sender, id, 0, "", err, 0))
          ELSE /\ rdStatus' = ENTERED
               /\ canClaim' = [canClaim EXCEPT ![id] = FALSE]
               /\ totalRewardPool' = totalRewardPool - device.totalRewards
               /\ pc' = "transfer"
               /\ frame' = [op |-> "claimRewards", sender |-> sender, id |-> id,
                            to |-> device.owner, amount |-> device.totalRewards]
               /\ saved' = Snapshot
               /\ nested' = NoNested
               /\ ret' = Ret("claimRewards", sender, id, 0, "", "pending", 0)
               /\ UNCHANGED <<regVars, rdOwner, rdPaused, stakedRewards, distributedRewards,
                              slashingHistory, slashingCounter, balance, now, histVars>>

\* withdrawStake without whenNotPaused
withdrawStake_err_noPause(sender, amount) ==
    FirstError(<< <<OnlyOwnerErr(rdOwner, sender) = "", "OwnableUnauthorizedAccount">>,
                  <<nonReentrantOk, "ReentrancyGuardReentrantCall">>,
                  <<amount <= stakedRewards, "Insufficient staked amount">>,
                  <<amount <= balance, "Insufficient contract balance">>,
                  <<amount <= totalRewardPool, "Panic(0x11)">> >>)

\* withdrawStake up to its transfer; totalRewardPool -= _amount is checked
\* arithmetic and reverts with Panic(0x11) when the pool is smaller than _amount
withdrawStake_err(sender, amount) ==
    FirstError(<< <<OnlyOwnerErr(rdOwner, sender) = "", "OwnableUnauthorizedAccount">>,
                  <<~rdPaused, "EnforcedPause">>,
                  <<nonReentrantOk, "ReentrancyGuardReentrantCall">>,
                  <<amount <= stakedRewards, "Insufficient staked amount">>,
                  <<amount <= balance, "Insufficient contract balance">>,
                  <<amount <= totalRewardPool, "Panic(0x11)">> >>)

withdrawStake(sender, amount) ==
    /\ Idle
    /\ LET err == withdrawStake_err(sender, amount)
       IN IF err # "" THEN Revert(Ret("withdrawStake", sender, 0, amount, "", err, 0))
          ELSE /\ rdStatus' = ENTERED
               /\ stakedRewards' = stakedRewards - amount
               /\ totalRewardPool' = totalRewardPool - amount
               /\ pc' = "transfer"
               /\ frame' = [op |-> "withdrawStake", sender |-> sender, id |-> 0,
                            to |-> rdOwner, amount |-> amount]
               /\ saved' = Snapshot
               /\ nested' = NoNested
               /\ ret' = Ret("withdrawStake", sender, 0, amount, "", "pending", 0)
               /\ UNCHANGED <<regVars, rdOwner, rdPaused, distributedRewards,
                              slashingHistory, canClaim, slashingCounter, balance,
                              now, histVars>>

\* While the transfer runs, the recipient's code may call back into the contract.
\* msg.sender of such a call is the recipient.  The entry point answers as it does
\* in the current state: a rejected call changes nothing, an accepted one would
\* run its body (and its own transfer) inside the outer call.
ReenterClaimRewards(id) ==
    /\ pc = "transfer"
    /\ LET err == claimRewards_err(frame.to, id)
           amount == DeviceAt(id).totalRewards
       IN IF err # "" \/ balance < amount
          THEN /\ nested' = [op |-> "claimRewards",
                             err |-> IF err # "" THEN err ELSE "TransferFailed"]
               /\ UNCHANGED <<regVars, rdVars, now, pc, frame, saved, ret, histVars>>
          ELSE /\ canClaim' = [canClaim EXCEPT ![id] = FALSE]
               /\ totalRewardPool' = totalRewardPool - amount
               /\ balance' = balance - amount
               /\ paid' = [paid EXCEPT ![id] = @ + amount]
               /\ nested' = [op |-> "claimRewards", err |-> ""]
               /\ UNCHANGED <<regVars, rdOwner, rdPaused, rdStatus, stakedRewards,
                              distributedRewards, slashingHistory, slashingCounter,
                              now, pc, frame, saved, ret, issued, credited, distributions>>

ReenterWithdrawStake(amount) ==
    /\ pc = "transfer"
    /\ LET err == withdrawStake_err(frame.to, amount)
       IN IF err # ""
          THEN /\ nested' = [op |-> "withdrawStake", err |-> err]
               /\ UNCHANGED <<regVars, rdVars, now, pc, frame, saved, ret, histVars>>
          ELSE /\ stakedRewards' = stakedRewards - amount
               /\ totalRewardPool' = totalRewardPool - amount
               /\ balance' = balance - amount
               /\ nested' = [op |-> "withdrawStake", err |-> ""]
               /\ UNCHANGED <<regVars, rdOwner, rdPaused, rdStatus, distributedRewards,
                              slashingHistory, canClaim, slashingCounter, now, pc,
                              frame, saved, ret, histVars>>

\* the transfer went through: the value leaves the contract, the lock is released
TransferReturn ==
    /\ pc = "transfer"
    /\ balance >= frame.amount
    /\ balance' = balance - frame.amount
    /\ rdStatus' = NOT_ENTERED
    /\ paid' = IF frame.op = "claimRewards"
               THEN [paid EXCEPT ![frame.id] = @ + frame.amount] ELSE paid
    /\ ret' = [Ret(frame.op, frame.sender, frame.id,
                   IF frame.op = "withdrawStake" THEN frame.amount ELSE 0,
                   "", "", frame.amount)
               EXCEPT !.nested = nested.err,
                      !.events = IF frame.op = "claimRewards"
                                 THEN <<Event("RewardDistribution", "RewardsClaimed",
                                              frame.id, frame.to, frame.amount, "")>>
                                 ELSE <<Event("RewardDistribution", "StakeWithdrawn",
                                              0, frame.sender, frame.amount, "")>>]
    /\ pc' = "idle"
    /\ frame' = NoFrame
    /\ saved' = NoSaved
    /\ nested' = NoNested
    /\ UNCHANGED <<regVars, rdOwner, rdPaused, totalRewardPool, stakedRewards,
                   distributedRewards, slashingHistory, canClaim, slashingCounter,
                   now, issued, credited, distributions>>

\* a failed transfer that undoes the transaction but leaves the lock taken
TransferRevert_lockHeld ==
    /\ pc = "transfer"
    /\ canClaim' = saved.canClaim
    /\ totalRewardPool' = saved.totalRewardPool
    /\ stakedRewards' = saved.stakedRewards
    /\ balance' = saved.balance
    /\ paid' = saved.paid
    /\ rdStatus' = ENTERED
    /\ ret' = [Ret(frame.op, frame.sender, frame.id,
                   IF frame.op = "withdrawStake" THEN frame.amount ELSE 0,
                   "", "TransferFailed", 0) EXCEPT !.nested = nested.err]
    /\ pc' = "idle"
    /\ frame' = NoFrame
    /\ saved' = NoSaved
    /\ nested' = NoNested
    /\ UNCHANGED <<regVars, rdOwner, rdPaused, distributedRewards, slashingHistory,
                   slashingCounter, now, issued, credited, distributions>>

\* the transfer failed (the contract holds too little, or the recipient rejected
\* the value): the whole transaction reverts to the state before the call
TransferRevert ==
    /\ pc = "transfer"
    /\ canClaim' = saved.canClaim
    /\ totalRewardPool' = saved.totalRewardPool
    /\ stakedRewards' = saved.stakedRewards
    /\ balance' = saved.balance
    /\ paid' = saved.paid
    /\ rdStatus' = NOT_ENTERED
    /\ ret' = [Ret(frame.op, frame.sender, frame.id,
                   IF frame.op = "withdrawStake" THEN frame.amount ELSE 0,
                   "", "TransferFailed", 0) EXCEPT !.nested = nested.err]
    /\ pc' = "idle"
    /\ frame' = NoFrame
    /\ saved' = NoSaved
    /\ nested' = NoNested
    /\ UNCHANGED <<regVars, rdOwner, rdPaused, distributedRewards, slashingHistory,
                   slashingCounter, now, issued, credited, distributions>>

\* emergencyWithdraw behind whenNotPaused, as the other administrator functions are
emergencyWithdraw_err_whenNotPaused(sender) ==
    FirstError(<< <<OnlyOwnerErr(rdOwner, sender) = "", "OwnableUnauthorizedAccount">>,
                  <<~rdPaused, "EnforcedPause">> >>)

\* emergencyWithdraw: onlyOwner is its only check
emergencyWithdraw_err(sender) == OnlyOwnerErr(rdOwner, sender)

\* emergencyWithdraw sends the whole balance to owner(), an account that accepts it
emergencyWithdraw(sender) ==
    /\ Idle
    /\ LET err == emergencyWithdraw_err(sender)
       IN IF err # "" THEN Revert(Ret("emergencyWithdraw", sender, 0, 0, "", err, 0))
          ELSE /\ balance' = 0
               /\ ret' = Ret("emergencyWithdraw", sender, 0, 0, "", "", balance)
               /\ UNCHANGED <<regVars, rdOwner, rdPaused, rdStatus, totalRewardPool,
                              stakedRewards, distributedRewards, slashingHistory,
                              canClaim, slashingCounter, now, callVars, histVars>>

rdPause(sender) ==
    /\ Idle
    /\ LET err == FirstError(<< <<OnlyOwnerErr(rdOwner, sender) = "", "OwnableUnauthorizedAccount">>,
                                <<~rdPaused, "EnforcedPause">> >>)
       IN IF err # "" THEN Revert(Ret("RewardDistribution.pause", sender, 0, 0, "", err, 0))
          ELSE /\ rdPaused' = TRUE
               /\ ret' = Ret("RewardDistribution.pause", sender, 0, 0, "", "", 0)
               /\ UNCHANGED <<regVars, rdOwner, rdStatus, totalRewardPool, stakedRewards,
                              distributedRewards, slashingHistory, canClaim,
                              slashingCounter, balance, now, callVars, histVars>>

\* an unpause that leaves the flag set
rdUnpause_staysPaused(sender) ==
    /\ Idle
    /\ LET err == FirstError(<< <<OnlyOwnerErr(rdOwner, sender) = "", "OwnableUnauthorizedAccount">>,
                                <<rdPaused, "ExpectedPause">> >>)
       IN IF err # "" THEN Revert(Ret("RewardDistribution.unpause", sender, 0, 0, "", err, 0))
          ELSE /\ ret' = Ret("RewardDistribution.unpause", sender, 0, 0, "", "", 0)
               /\ UNCHANGED <<regVars, rdVars, now, callVars, histVars>>

\* Pausable._unpause behind onlyOwner
rdUnpause(sender) ==
    /\ Idle
    /\ LET err == FirstError(<< <<OnlyOwnerErr(rdOwner, sender) = "", "OwnableUnauthorizedAccount">>,
                                <<rdPaused, "ExpectedPause">> >>)
       IN IF err # "" THEN Revert(Ret("RewardDistribution.unpause", sender, 0, 0, "", err, 0))
          ELSE /\ rdPaused' = FALSE
               /\ ret' = Ret("RewardDistribution.unpause", sender, 0, 0, "", "", 0)
               /\ UNCHANGED <<regVars, rdOwner, rdStatus, totalRewardPool, stakedRewards,
                              distributedRewards, slashingHistory, canClaim,
                              slashingCounter, balance, now, callVars, histVars>>

\* getPoolStats (view): the subtraction totalRewardPool - distributedRewards is
\* checked arithmetic and reverts with Panic(0x11) when it would be negative
getPoolStats_err ==
    FirstError(<< <<totalRewardPool >= distributedRewards, "Panic(0x11)">> >>)

\* the values getPoolStats returns: pool, staked, distributed, available
getPoolStats_val ==
    <<totalRewardPool, stakedRewards, distributedRewards,
      totalRewardPool - distributedRewards>>

\* a call of getPoolStats; ret.val is the fourth value returned, available
getPoolStats(sender) ==
    /\ Idle
    /\ LET err == getPoolStats_err
       IN IF err # "" THEN Revert(Ret("getPoolStats", sender, 0, 0, "", err, 0))
          ELSE Revert(Ret("getPoolStats", sender, 0, 0, "", "", getPoolStats_val[4]))

\* ============================================================ environment
\* The transactions the environment submits.  Calls that can only be rejected are
\* submitted with one choice of arguments.
DeviceIds == 1..MaxDevices
URI == "ipfs://QmTest123"

\* Spec drives the ledger, together with the registry operations the ledger reads
\* (registration and the registry's owner).
Next ==
    \/ \E a \in Users : registerDevice(a, URI)
    \/ \E a \in Users : regTransferOwnership(a, LedgerAddr)
    \/ \E v \in {MIN_STAKE_AMOUNT - 1, MIN_STAKE_AMOUNT} : stakeRewards(Deployer, v, v)
    \/ stakeRewards(Addr1, MIN_STAKE_AMOUNT, MIN_STAKE_AMOUNT)
    \/ \E i \in DeviceIds, n \in {0, 1, 5} : distributeRewards(Deployer, i, n)
    \/ distributeRewards(Deployer, 0, 5)
    \/ distributeRewards(Addr1, 1, 5)
    \/ \E i \in DeviceIds : slashDevice(Deployer, i, "Offline", 10)
    \/ slashDevice(Deployer, 1, "None", 10)
    \/ slashDevice(Deployer, 1, "MaliciousActivity", 101)
    \/ slashDevice(Addr1, 1, "Offline", 10)
    \/ \E a \in Users, i \in DeviceIds : claimRewards(a, i)
    \/ claimRewards(Addr1, 0)
    \/ \E a \in Users : withdrawStake(a, MIN_STAKE_AMOUNT)
    \/ \E i \in DeviceIds : ReenterClaimRewards(i)
    \/ ReenterWithdrawStake(MIN_STAKE_AMOUNT)
    \/ TransferReturn
    \/ TransferRevert
    \/ \E a \in Users : emergencyWithdraw(a)
    \/ \E a \in Users : rdPause(a)
    \/ \E a \in Users : rdUnpause(a)

Spec == Init /\ [][Next]_vars

\* SpecRegistry drives the registry alone.
NextRegistry ==
    \/ \E a \in Users : registerDevice(a, URI)
    \/ \E a \in Users, i \in 0..MaxDevices : reportMetrics(a, i, 250, "temperature")
    \/ \E i \in DeviceIds, st \in DeviceStatus : updateDeviceStatus(Deployer, i, st)
    \/ updateDeviceStatus(Addr1, 1, "Suspended")
    \/ \E a \in Users : addRewards(a, 1, 15)
    \/ \E a \in Users : regPause(a)
    \/ \E a \in Users : regUnpause(a)
    \/ regTransferOwnership(Deployer, Addr1)
    \/ Tick

SpecRegistry == Init /\ [][NextRegistry]_vars

\* SpecSlash drives slashing with the clock running: the administrator funds the
\* pool, rewards devices (through the ledger, or directly in the registry while
\* the deployer still owns it) and slashes them.
NextSlash ==
    \/ registerDevice(Addr1, URI)
    \/ regTransferOwnership(Deployer, LedgerAddr)
    \/ addRewards(Deployer, 1, 15)
    \/ stakeRewards(Deployer, MIN_STAKE_AMOUNT, MIN_STAKE_AMOUNT)
    \/ \E i \in DeviceIds : distributeRewards(Deployer, i, 5)
    \/ \E i \in DeviceIds, k \in {"Offline", "MaliciousActivity"}, p \in {10, 100} :
           slashDevice(Deployer, i, k, p)
    \/ slashDevice(Deployer, 1, "None", 10)
    \/ slashDevice(Deployer, 1, "DataInconsistency", 101)
    \/ slashDevice(Deployer, 1, "DataInconsistency", 0)
    \/ rdPause(Deployer)
    \/ rdUnpause(Deployer)
    \/ Tick

SpecSlash == Init /\ [][NextSlash]_vars

\* SpecStake drives the pool's funding: stakes with too little, exact and excess
\* value, withdrawals, one device that is rewarded, slashed and paid, the pause.
StakeArgs == {<<MIN_STAKE_AMOUNT - 1, MIN_STAKE_AMOUNT \div 2>>,
              <<MIN_STAKE_AMOUNT - 1, MIN_STAKE_AMOUNT>>,
              <<MIN_STAKE_AMOUNT, MIN_STAKE_AMOUNT - 1>>,
              <<MIN_STAKE_AMOUNT, MIN_STAKE_AMOUNT>>,
              <<MIN_STAKE_AMOUNT, MIN_STAKE_AMOUNT + MIN_STAKE_AMOUNT \div 2>>}

NextStake ==
    \/ registerDevice(Addr1, URI)
    \/ regTransferOwnership(Deployer, LedgerAddr)
    \/ \E av \in StakeArgs : stakeRewards(Deployer, av[1], av[2])
    \/ stakeRewards(Addr1, MIN_STAKE_AMOUNT, MIN_STAKE_AMOUNT)
    \/ distributeRewards(Deployer, 1, 5)
    \/ slashDevice(Deployer, 1, "Offline", 10)
    \/ claimRewards(Addr1, 1)
    \/ \E amount \in {MIN_STAKE_AMOUNT \div 2, MIN_STAKE_AMOUNT} :
           withdrawStake(Deployer, amount)
    \/ withdrawStake(Addr1, MIN_STAKE_AMOUNT)
    \/ TransferReturn
    \/ TransferRevert
    \/ rdPause(Deployer)
    \/ rdUnpause(Deployer)

SpecStake == Init /\ [][NextStake]_vars

\* SpecPause drives both contracts with both pause switches: every entry point is
\* called by the account entitled to it (the deployer as administrator, Addr1 as
\* device owner), in each of the four combinations of the two paused flags.
NextPause ==
    \/ registerDevice(Addr1, URI)
    \/ reportMetrics(Addr1, 1, 250, "temperature")
    \/ updateDeviceStatus(Deployer, 1, "Suspended")
    \/ addRewards(Deployer, 1, 15)
    \/ regPause(Deployer)
    \/ regUnpause(Deployer)
    \/ regTransferOwnership(Deployer, LedgerAddr)
    \/ stakeRewards(Deployer, MIN_STAKE_AMOUNT, MIN_STAKE_AMOUNT)
    \/ distributeRewards(Deployer, 1, 1)
    \/ slashDevice(Deployer, 1, "Offline", 100)
    \/ claimRewards(Addr1, 1)
    \/ withdrawStake(Deployer, MIN_STAKE_AMOUNT)
    \/ TransferReturn
    \/ TransferRevert
    \/ rdPause(Deployer)
    \/ rdUnpause(Deployer)

SpecPause == Init /\ [][NextPause]_vars

\* SpecAdmin calls every onlyOwner function of both contracts as the deployer and as
\* another account, on device 1 and on id 0, paused or not, before and after the
\* registry's ownership passes to the ledger.
NextAdmin ==
    \/ registerDevice(Addr1, URI)
    \/ regTransferOwnership(Deployer, LedgerAddr)
    \/ \E a \in Users : regPause(a)
    \/ \E a \in Users : regUnpause(a)
    \/ \E a \in Users : rdPause(a)
    \/ \E a \in Users : rdUnpause(a)
    \/ \E a \in Users : stakeRewards(a, MIN_STAKE_AMOUNT, MIN_STAKE_AMOUNT)
    \/ \E a \in Users, i \in {0, 1} : updateDeviceStatus(a, i, "Suspended")
    \/ \E a \in Users, i \in {0, 1} : addRewards(a, i, 15)
    \/ \E i \in {0, 1} : distributeRewards(Addr1, i, 1)
    \/ \E a \in Users, i \in {0, 1} : slashDevice(a, i, "Offline", 100)
    \/ \E a \in Users : withdrawStake(a, MIN_STAKE_AMOUNT)
    \/ TransferReturn
    \/ \E a \in Users : emergencyWithdraw(a)

SpecAdmin == Init /\ [][NextAdmin]_vars

\* SpecMetrics drives the metric lists: the owner of two devices reports two
\* different measurements while the clock runs, between status changes, a credit of
\* rewards and the pause of the registry.
MetricArgs == {<<250, "temperature">>, <<60, "humidity">>}

NextMetrics ==
    \/ registerDevice(Addr1, URI)
    \/ \E i \in DeviceIds, m \in MetricArgs : reportMetrics(Addr1, i, m[1], m[2])
    \/ reportMetrics(Deployer, 1, 250, "temperature")
    \/ \E st \in {"Active", "Paused"} : updateDeviceStatus(Deployer, 1, st)
    \/ addRewards(Deployer, 1, 15)
    \/ regPause(Deployer)
    \/ regUnpause(Deployer)
    \/ Tick

SpecMetrics == Init /\ [][NextMetrics]_vars

\* SpecIdentity follows devices of two owners through every operation that touches
\* a device, with the clock running: reports, status changes, credits,
\* distributions, slashes, claims and the pause of the registry.
NextIdentity ==
    \/ \E a \in Users : registerDevice(a, URI)
    \/ reportMetrics(Addr1, 1, 250, "temperature")
    \/ updateDeviceStatus(Deployer, 1, "Paused")
    \/ addRewards(Deployer, 1, 15)
    \/ regTransferOwnership(Deployer, LedgerAddr)
    \/ stakeRewards(Deployer, MIN_STAKE_AMOUNT, MIN_STAKE_AMOUNT)
    \/ distributeRewards(Deployer, 1, 1)
    \/ slashDevice(Deployer, 1, "Offline", 100)
    \/ claimRewards(Addr1, 1)
    \/ TransferReturn
    \/ regPause(Deployer)
    \/ Tick

SpecIdentity == Init /\ [][NextIdentity]_vars

\* SpecSlashArgs drives the checks of slashDevice: the administrator and another
\* account slash a device with no rewards and with 15, with and without a violation
\* type, by percentages whose share of 15 rounds down to 0 (0, 6), is positive
\* (7, 100) or is out of range (101), on an existing id and on id 0, paused or not.
SlashPercentages == {0, 6, 7, 100, 101}

NextSlashArgs ==
    \/ registerDevice(Addr1, URI)
    \/ addRewards(Deployer, 1, 15)
    \/ stakeRewards(Deployer, MIN_STAKE_AMOUNT, MIN_STAKE_AMOUNT)
    \/ \E i \in {0, 1}, k \in {"None", "Offline"}, p \in SlashPercentages :
           slashDevice(Deployer, i, k, p)
    \/ slashDevice(Addr1, 1, "Offline", 100)
    \/ rdPause(Deployer)
    \/ rdUnpause(Deployer)

SpecSlashArgs == Init /\ [][NextSlashArgs]_vars

\* SpecDistribute drives distributeRewards by the administrator over the states of
\* the pool: empty, funded, partly distributed, drawn below what was distributed by
\* a withdrawal, paused; with report counts from 0 to one whose reward exceeds the
\* integer range, on ids inside and outside 1..getTotalDevices(); anyone reads the
\* pool's figures with getPoolStats.
HugeCount == MaxUint \div BASE_REWARD_RATE + 1

NextDistribute ==
    \/ registerDevice(Addr1, URI)
    \/ regTransferOwnership(Deployer, LedgerAddr)
    \/ stakeRewards(Deployer, MIN_STAKE_AMOUNT, MIN_STAKE_AMOUNT)
    \/ \E i \in 0..(MaxDevices + 1), n \in {0, 5, 10, 11, HugeCount} :
           distributeRewards(Deployer, i, n)
    \/ distributeRewards(Addr1, 1, 5)
    \/ withdrawStake(Deployer, MIN_STAKE_AMOUNT)
    \/ TransferReturn
    \/ rdPause(Deployer)
    \/ rdUnpause(Deployer)
    \/ getPoolStats(Addr1)

SpecDistribute == Init /\ [][NextDistribute]_vars

\* SpecCalls drives the ledger at the grain of its external calls: distributeRewards
\* is split at its call into the registry, claimRewards and withdrawStake at their
\* transfers, and each of these calls can fail.
Callers == Users \cup {RegistryAddr}

NextCalls ==
    \/ registerDevice(Addr1, URI)
    \/ reportMetrics(Deployer, 1, 250, "temperature")
    \/ addRewards(Addr1, 1, 15)
    \/ regTransferOwnership(Deployer, LedgerAddr)
    \/ \E v \in {MIN_STAKE_AMOUNT - 1, MIN_STAKE_AMOUNT} : stakeRewards(Deployer, v, v)
    \/ \E n \in {1, 11} : distributeRewardsEnter(Deployer, 1, n)
    \/ distributeRewardsEnter(Deployer, 0, 1)
    \/ distributeRewardsEnter(Addr1, 1, 1)
    \/ addRewardsReturn
    \/ addRewardsRevert
    \/ slashDevice(Deployer, 1, "Offline", 10)
    \/ \E a \in Users : claimRewards(a, 1)
    \/ withdrawStake(Deployer, MIN_STAKE_AMOUNT)
    \/ ReenterClaimRewards(1)
    \/ ReenterWithdrawStake(MIN_STAKE_AMOUNT)
    \/ TransferReturn
    \/ TransferRevert
    \/ emergencyWithdraw(Deployer)
    \/ rdPause(Deployer)
    \/ rdUnpause(Deployer)

SpecCalls == Init /\ [][NextCalls]_vars

\* ================================================================= claims
\* C1: in every state between transactions the pool covers what was distributed,
\* totalRewardPool >= distributedRewards.
C1_Conservation == Idle => totalRewardPool >= distributedRewards

\* C2: for every device the value paid out by claimRewards never exceeds the value
\* credited to it by distributeRewards.
C2_ExactlyOnceClaim == \A d \in DeviceIds : paid[d] <= credited[d]

\* C3: while claimRewards or withdrawStake is at its transfer, a nested claimRewards
\* or withdrawStake by the recipient is rejected and changes no contract state, and
\* when the outer call completes it has paid its amount once and debited the pool
\* once, counted from the state before the call.
C3_ReentryDefense ==
    [][pc = "transfer" =>
         /\ pc' = "transfer" =>
               /\ nested'.err # ""
               /\ UNCHANGED <<regVars, rdVars, histVars>>
         /\ (pc' = "idle" /\ ret'.err = "") =>
               /\ balance' = saved.balance - frame.amount
               /\ totalRewardPool' = saved.totalRewardPool - frame.amount
               /\ frame.op = "claimRewards" =>
                     paid' = [saved.paid EXCEPT ![frame.id] = @ + frame.amount]
               /\ frame.op = "withdrawStake" =>
                     /\ paid' = saved.paid
                     /\ stakedRewards' = saved.stakedRewards - frame.amount]_vars

\* C3 witness: a claim completed although its recipient tried to claim again from
\* inside the transfer, and that attempt was stopped by the reentrancy lock.
C3_Witness ==
    /\ Idle
    /\ ret.op = "claimRewards"
    /\ ret.err = ""
    /\ ret.val > 0
    /\ ret.nested = "ReentrancyGuardReentrantCall"

\* C6: a successful distributeRewards(d, n) by the administrator adds
\* BASE_REWARD_RATE*n to distributedRewards and to d's totalRewards, sets canClaim[d],
\* and leaves totalRewardPool, stakedRewards and every other device alone; n = 5 on
\* a device with no rewards gives 500.
C6_DistributeEffect ==
    [][(ret'.op = "distributeRewards" /\ ret'.err = "") =>
         LET d == ret'.id
             r == BASE_REWARD_RATE * ret'.amount
         IN /\ ret'.sender = rdOwner
            /\ ret'.val = r
            /\ distributedRewards' = distributedRewards + r
            /\ devices'[d].totalRewards = devices[d].totalRewards + r
            /\ (ret'.amount = 5 /\ devices[d].totalRewards = 0) =>
                   devices'[d].totalRewards = 500
            /\ canClaim'[d] = TRUE
            /\ UNCHANGED <<totalRewardPool, stakedRewards, balance>>
            /\ \A e \in DeviceIds \ {d} :
                   /\ canClaim'[e] = canClaim[e]
                   /\ DeviceAt(e)' = DeviceAt(e)]_vars

\* C6 witness: five reports were rewarded on a fresh device while another device
\* already held rewards.
C6_Witness ==
    /\ ret.op = "distributeRewards"
    /\ ret.err = ""
    /\ ret.amount = 5
    /\ devices[ret.id].totalRewards = 500
    /\ \E e \in DOMAIN devices \ {ret.id} : devices[e].totalRewards > 0 /\ canClaim[e]

\* C7: with both contracts deployed by the same account and the registry's owner
\* never changed, distributeRewards by that account on an existing device, not
\* paused, with totalRewardPool >= distributedRewards + BASE_REWARD_RATE*n, succeeds.
C7_DistributeSucceedsAsDeployed ==
    ( /\ ret.op = "distributeRewards"
      /\ ret.sender = Deployer
      /\ rdOwner = Deployer
      /\ regOwner = Deployer
      /\ ret.id \in deviceExists
      /\ ~rdPaused
      /\ totalRewardPool >= distributedRewards + BASE_REWARD_RATE * ret.amount )
    => ret.err = ""

\* C8: claimRewards passes its checks only when canClaim[d] holds, the caller is d's
\* owner, d's totalRewards is positive and the pool covers it; when it completes it
\* has sent exactly totalRewards to the caller, taken exactly that from
\* totalRewardPool, cleared canClaim[d], and left stakedRewards and
\* distributedRewards alone.
C8_ClaimEffect ==
    [][/\ (pc = "idle" /\ pc' = "transfer" /\ frame'.op = "claimRewards") =>
            LET d == frame'.id
            IN /\ d \in deviceExists
               /\ canClaim[d]
               /\ frame'.sender = devices[d].owner
               /\ devices[d].totalRewards > 0
               /\ totalRewardPool >= devices[d].totalRewards
               /\ UNCHANGED <<stakedRewards, distributedRewards>>
       /\ (frame.op = "claimRewards" /\ pc' = "transfer") =>
               UNCHANGED <<stakedRewards, distributedRewards>>
       /\ (ret'.op = "claimRewards" /\ ret'.err = "") =>
            LET d == ret'.id
                amount == devices[d].totalRewards
            IN /\ frame.op = "claimRewards" /\ frame.id = d
               /\ frame.to = ret'.sender
               /\ ret'.val = amount
               /\ saved.canClaim[d]
               /\ canClaim' = [saved.canClaim EXCEPT ![d] = FALSE]
               /\ totalRewardPool' = saved.totalRewardPool - amount
               /\ balance' = saved.balance - amount
               /\ paid' = [saved.paid EXCEPT ![d] = @ + amount]
               /\ stakedRewards' = saved.stakedRewards
               /\ distributedRewards' = distributedRewards]_vars

\* C8 witness: the owner claimed the 500 that five reports had earned.
C8_Witness ==
    /\ ret.op = "claimRewards"
    /\ ret.err = ""
    /\ ret.val = 500
    /\ ret.sender = devices[ret.id].owner
    /\ ~canClaim[ret.id]

\* C10: a top-level claimRewards on an existing device whose canClaim is false, the
\* ledger not paused, is rejected with "No claimable rewards" whoever calls, and
\* changes nothing.
C10_NothingToClaim ==
    [][(/\ pc = "idle"
        /\ ret'.op = "claimRewards"
        /\ ret'.id \in deviceExists
        /\ ~canClaim[ret'.id]
        /\ ~rdPaused) =>
          /\ ret'.err = "No claimable rewards"
          /\ UNCHANGED <<regVars, rdVars, callVars, histVars>>]_vars

\* C10 witness: the rejected caller is not the owner, and the device had been
\* rewarded and paid before.
C10_Witness ==
    /\ ret.op = "claimRewards"
    /\ ret.err = "No claimable rewards"
    /\ ret.id \in deviceExists
    /\ ret.sender # devices[ret.id].owner
    /\ paid[ret.id] > 0
    /\ ~rdPaused

\* C4: the n-th successful registerDevice returns n, getTotalDevices is n right
\* after it, and no id is returned twice, whatever rejected registrations, status
\* updates and other calls come in between.
C4_SequentialIds ==
    /\ Len(issued) = deviceCounter
    /\ \A n \in 1..Len(issued) : issued[n] = n
    /\ (ret.op = "registerDevice" /\ ret.err = "") =>
           /\ ret.val = Len(issued)
           /\ ret.val = deviceCounter
           /\ ret.val \in deviceExists

\* C4 witness: the second registration returned 2 after the first device's status
\* had been changed.
C4_Witness ==
    /\ ret.op = "registerDevice"
    /\ ret.err = ""
    /\ ret.val = 2
    /\ devices[1].status = "Suspended"
    /\ devices[1].owner # devices[2].owner

\* C5: reportMetrics on an existing device by anyone but its owner is rejected with
\* "Not device owner" in every device status, paused or not, and stores nothing.
C5_ReportNotOwner ==
    [][(/\ ret'.op = "reportMetrics"
        /\ ret'.id \in deviceExists
        /\ ret'.sender # devices[ret'.id].owner) =>
          /\ ret'.err = "Not device owner"
          /\ UNCHANGED <<regVars, rdVars, histVars>>]_vars

\* C5 witness: the rejected report was for a suspended device while the registry
\* was paused.
C5_Witness ==
    /\ ret.op = "reportMetrics"
    /\ ret.err = "Not device owner"
    /\ ret.id \in deviceExists
    /\ devices[ret.id].status = "Suspended"
    /\ regPaused

\* C9 as stated: slashDevice by the administrator on an existing device with a
\* violation type other than None, a percentage of at most 100 and a positive
\* slash amount succeeds.
C9_SlashSucceeds ==
    ( /\ ret.op = "slashDevice"
      /\ ret.sender = rdOwner
      /\ ret.id \in deviceExists
      /\ ret.kind # "None"
      /\ ret.amount <= 100
      /\ SlashAmount(ret.id, ret.amount) > 0 )
    => ret.err = ""

\* C9 amended: such a slashDevice, submitted while the ledger is not paused,
\* succeeds, returns s = floor(totalRewards*p/100), appends the one record
\* (d, kind, s, block.timestamp, resolved = false) to the end of d's history, leaves
\* every earlier record of every device as it was, clears canClaim[d] and adds
\* exactly s to totalRewardPool; totalRewards 500 at 10% gives 50.
C9_SlashEffect ==
    [][(/\ pc = "idle"
        /\ ret'.op = "slashDevice"
        /\ ret'.sender = rdOwner
        /\ ret'.id \in deviceExists
        /\ ret'.kind # "None"
        /\ ret'.amount <= 100
        /\ SlashAmount(ret'.id, ret'.amount) > 0
        /\ ~rdPaused) =>
          LET d == ret'.id
              s == (devices[d].totalRewards * ret'.amount) \div 100
          IN /\ ret'.err = ""
             /\ ret'.val = s
             /\ (devices[d].totalRewards = 500 /\ ret'.amount = 10) => s = 50
             /\ slashingHistory' = [slashingHistory EXCEPT ![d] =
                    Append(@, [deviceId |-> d, violationType |-> ret'.kind, amount |-> s,
                               timestamp |-> now, resolved |-> FALSE])]
             /\ canClaim' = [canClaim EXCEPT ![d] = FALSE]
             /\ totalRewardPool' = totalRewardPool + s
             /\ UNCHANGED <<regVars, stakedRewards, distributedRewards, balance>>]_vars

\* C9 witness: a device holding 500 was slashed by 10% for being offline, as the
\* second slash in its history, after the clock had advanced.
C9_Witness ==
    /\ ret.op = "slashDevice"
    /\ ret.err = ""
    /\ ret.kind = "Offline"
    /\ ret.amount = 10
    /\ ret.val = 50
    /\ Len(slashingHistory[ret.id]) = 2
    /\ slashingHistory[ret.id][2].timestamp = 1
    /\ slashingHistory[ret.id][1].timestamp = 0
    /\ ~canClaim[ret.id]

\* C11: stakeRewards(amount) with value v succeeds exactly when the caller is the
\* administrator, the ledger is not paused, v >= amount and amount >= MIN_STAKE_AMOUNT;
\* the administrator's stake below the minimum on an unpaused ledger is rejected for
\* its arguments ("Below minimum stake amount", or "Insufficient value sent" when v
\* is short as well); a rejected stake changes nothing and emits nothing; a
\* successful one adds exactly amount to stakedRewards and to totalRewardPool,
\* whatever v is, takes v into the balance and changes nothing else.
C11_StakeEffect ==
    [][(pc = "idle" /\ ret'.op = "stakeRewards") =>
         LET amount == ret'.amount
             v == ret'.val
             ok == /\ ret'.sender = rdOwner
                   /\ ~rdPaused
                   /\ v >= amount
                   /\ amount >= MIN_STAKE_AMOUNT
         IN /\ (ret'.err = "") <=> ok
            /\ (ret'.sender = rdOwner /\ ~rdPaused /\ amount < MIN_STAKE_AMOUNT) =>
                  /\ ret'.err \in {"Below minimum stake amount", "Insufficient value sent"}
                  /\ v >= amount => ret'.err = "Below minimum stake amount"
            /\ ret'.err # "" =>
                  /\ UNCHANGED <<regVars, rdVars, callVars, histVars>>
                  /\ ret'.events = <<>>
            /\ ok =>
                  /\ stakedRewards' = stakedRewards + amount
                  /\ totalRewardPool' = totalRewardPool + amount
                  /\ balance' = balance + v
                  /\ UNCHANGED <<regVars, rdOwner, rdPaused, rdStatus, distributedRewards,
                                 slashingHistory, canClaim, slashingCounter, callVars,
                                 histVars>>]_vars

\* C11 witness: a stake of the minimum carrying half as much again succeeded on a
\* pool that already held a slashed amount, so the pool stands above the stake and
\* the balance holds the excess.
C11_Witness ==
    /\ ret.op = "stakeRewards"
    /\ ret.err = ""
    /\ ret.val > ret.amount
    /\ stakedRewards = ret.amount
    /\ totalRewardPool > stakedRewards
    /\ balance >= ret.val

C13_GlobalPause ==
    [][(/\ pc = "idle"
        /\ regPaused \/ rdPaused
        /\ ret'.op \in {"registerDevice", "reportMetrics", "stakeRewards",
                        "distributeRewards", "slashDevice", "claimRewards",
                        "withdrawStake"}) =>
          ret'.err \notin {"", "pending"}]_vars

\* C13 amended: the pause is per contract.  A registry function is rejected with
\* EnforcedPause only while the registry is paused and a ledger function only while
\* the ledger is paused; registerDevice fails exactly when the registry is paused,
\* whatever the ledger's switch, and the administrator's stakeRewards of the minimum
\* with its value fails exactly when the ledger is paused, whatever the registry's.
C13_PausePerContract ==
    [][pc = "idle" =>
         LET op == ret'.op
         IN /\ ( /\ op \in {"registerDevice", "reportMetrics", "updateDeviceStatus",
                             "addRewards"}
                 /\ ret'.err = "EnforcedPause" ) => regPaused
            /\ ( /\ op \in {"stakeRewards", "slashDevice", "claimRewards",
                             "withdrawStake", "distributeRewards", "emergencyWithdraw"}
                 /\ ret'.err = "EnforcedPause" ) => rdPaused
            /\ op = "registerDevice" =>
                  /\ (ret'.err = "") <=> ~regPaused
                  /\ (ret'.err = "EnforcedPause") <=> regPaused
            /\ ( /\ op = "stakeRewards" /\ ret'.sender = rdOwner
                 /\ ret'.val >= ret'.amount /\ ret'.amount >= MIN_STAKE_AMOUNT ) =>
                  /\ (ret'.err = "") <=> ~rdPaused
                  /\ (ret'.err = "EnforcedPause") <=> rdPaused]_vars

\* C13 witness: a second device was registered while the ledger was paused and
\* the registry was not.
C13_Witness ==
    /\ rdPaused
    /\ ~regPaused
    /\ ret.op = "registerDevice"
    /\ ret.err = ""
    /\ ret.val = 2

\* C16: a top-level call of updateDeviceStatus, addRewards, pause or unpause of the
\* registry by anyone but the registry's owner, or of stakeRewards,
\* distributeRewards, slashDevice, withdrawStake, pause, unpause or
\* emergencyWithdraw of the ledger by anyone but the ledger's owner, fails with
\* OwnableUnauthorizedAccount, changes nothing and emits nothing, paused or not,
\* whatever the device id.
C16_AdminOnly ==
    [][(/\ pc = "idle"
        /\ \/ /\ ret'.op \in {"updateDeviceStatus", "addRewards", "DePINManager.pause",
                              "DePINManager.unpause"}
              /\ ret'.sender # regOwner
           \/ /\ ret'.op \in {"stakeRewards", "distributeRewards", "slashDevice",
                              "withdrawStake", "RewardDistribution.pause",
                              "RewardDistribution.unpause", "emergencyWithdraw"}
              /\ ret'.sender # rdOwner) =>
          /\ ret'.err = "OwnableUnauthorizedAccount"
          /\ ret'.events = <<>>
          /\ UNCHANGED <<regVars, rdVars, callVars, histVars>>]_vars

\* C16 witness: another account's slashDevice on id 0 was rejected as unauthorized
\* while the ledger was paused and held a funded pool.
C16_Witness ==
    /\ ret.op = "slashDevice"
    /\ ret.sender # rdOwner
    /\ ret.id = 0
    /\ ret.err = "OwnableUnauthorizedAccount"
    /\ rdPaused
    /\ totalRewardPool > 0

\* C14: canClaim[d] starts false and is true exactly between a successful
\* distributeRewards on d and the next successful claimRewards or slashDevice on d.
\* Stated by its steps: no device is claimable before the first distribution; the
\* flag of d becomes true only by a successful distributeRewards on d (or when a
\* claimRewards on d that had cleared it fails at its transfer and is undone), and
\* becomes false only by a successful slashDevice on d or by claimRewards on d
\* passing its checks; a successful distributeRewards on d leaves it true, a
\* successful slashDevice or claimRewards on d leaves it false, a failed claim
\* leaves it true; no other step changes it.
C14_FlagLifeCycle ==
    /\ [](\A d \in DeviceIds : canClaim[d] => distributions > 0)
    /\ [][\A d \in DeviceIds :
            LET claimUndone == /\ pc = "transfer" /\ pc' = "idle"
                               /\ frame.op = "claimRewards" /\ frame.id = d
                               /\ ret'.err # ""
                distributed == /\ ret'.op = "distributeRewards" /\ ret'.err = ""
                               /\ ret'.id = d
                slashed == /\ ret'.op = "slashDevice" /\ ret'.err = "" /\ ret'.id = d
                claimEntered == /\ pc = "idle" /\ pc' = "transfer"
                                /\ frame'.op = "claimRewards" /\ frame'.id = d
                claimed == /\ ret'.op = "claimRewards" /\ ret'.err = "" /\ ret'.id = d
            IN /\ (~canClaim[d] /\ canClaim'[d]) => (distributed \/ claimUndone)
               /\ (canClaim[d] /\ ~canClaim'[d]) => (slashed \/ claimEntered)
               /\ distributed => canClaim'[d]
               /\ slashed => ~canClaim'[d]
               /\ claimed => ~canClaim'[d]
               /\ claimUndone => canClaim'[d]]_vars

\* C14 witness: a device that was paid once is claimable again after a second
\* distribution, while the other device, never rewarded, is not.
C14_Witness ==
    /\ ret.op = "distributeRewards"
    /\ ret.err = ""
    /\ paid[ret.id] > 0
    /\ canClaim[ret.id]
    /\ \E e \in deviceExists : ~canClaim[e] /\ credited[e] = 0

\* C15: a call that fails leaves the registry, the ledger, the balance and the
\* notifications as they were before it.  A call rejected by a check changes
\* nothing; when addRewards fails inside distributeRewards the increase of
\* distributedRewards is taken back; when the transfer of claimRewards or
\* withdrawStake fails the flag and the pool figures written before it are put
\* back; in each case the lock is free again and nothing is emitted.
C15_AllOrNothing ==
    [][(ret'.err \notin {"", "pending"} /\ pc' = "idle") =>
         /\ ret'.events = <<>>
         /\ rdStatus' = NOT_ENTERED
         /\ UNCHANGED <<regVars, rdOwner, rdPaused, slashingHistory, slashingCounter,
                        balance, histVars>>
         /\ pc = "idle" => UNCHANGED <<rdVars, callVars>>
         /\ pc = "addRewards" =>
               /\ distributedRewards' = distributedRewards - frame.amount
               /\ UNCHANGED <<totalRewardPool, stakedRewards, canClaim>>
         /\ (pc = "transfer" /\ frame.op = "claimRewards") =>
               /\ canClaim' = [canClaim EXCEPT ![frame.id] = TRUE]
               /\ totalRewardPool' = totalRewardPool + frame.amount
               /\ UNCHANGED <<stakedRewards, distributedRewards>>
         /\ (pc = "transfer" /\ frame.op = "withdrawStake") =>
               /\ stakedRewards' = stakedRewards + frame.amount
               /\ totalRewardPool' = totalRewardPool + frame.amount
               /\ UNCHANGED <<canClaim, distributedRewards>>]_vars

\* C15 witness: a claim had cleared the flag and debited the pool, its transfer
\* failed because the ledger held less than the reward, and the device is
\* claimable again with the pool covering the reward.
C15_Witness ==
    /\ ret.op = "claimRewards"
    /\ ret.err = "TransferFailed"
    /\ canClaim[ret.id]
    /\ balance < devices[ret.id].totalRewards
    /\ totalRewardPool >= devices[ret.id].totalRewards
    /\ rdStatus = NOT_ENTERED

C18_WithdrawStake ==
    [][/\ (/\ pc = "idle"
           /\ ret'.op = "withdrawStake"
           /\ ret'.sender = rdOwner
           /\ ~rdPaused) =>
             /\ (ret'.amount <= stakedRewards /\ ret'.amount <= balance)
                   <=> (pc' = "transfer" /\ ret'.err = "pending")
             /\ pc' = "transfer" =>
                   /\ stakedRewards' = stakedRewards - ret'.amount
                   /\ totalRewardPool' = totalRewardPool - ret'.amount
                   /\ UNCHANGED <<distributedRewards, canClaim, balance>>
       /\ (/\ pc = "transfer"
           /\ frame.op = "withdrawStake"
           /\ ret'.op = "withdrawStake"
           /\ ret'.err = "") =>
             /\ balance' = balance - frame.amount
             /\ frame.to = rdOwner
             /\ UNCHANGED <<stakedRewards, totalRewardPool, distributedRewards,
                            canClaim>>]_vars

\* C19: between transactions the sum of totalRewards over all registered devices
\* equals the ledger's distributedRewards.
C19_LedgersAgree == Idle => AccruedTotal = distributedRewards

C21_PauseRoundTrip ==
    [][/\ (ret'.op = "DePINManager.pause" /\ ret'.err = "") =>
             /\ ~regPaused /\ regPaused'
             /\ ret'.sender = regOwner
             /\ UNCHANGED <<regOwner, deviceCounter, metricsCounter, devices,
                            deviceMetrics, ownerDevices, deviceExists, allDeviceIds,
                            rdVars, now, callVars, histVars>>
       /\ (ret'.op = "DePINManager.unpause" /\ ret'.err = "") =>
             /\ regPaused /\ ~regPaused'
             /\ ret'.sender = regOwner
             /\ UNCHANGED <<regOwner, deviceCounter, metricsCounter, devices,
                            deviceMetrics, ownerDevices, deviceExists, allDeviceIds,
                            rdVars, now, callVars, histVars>>
       /\ (ret'.op = "RewardDistribution.pause" /\ ret'.err = "") =>
             /\ ~rdPaused /\ rdPaused'
             /\ ret'.sender = rdOwner
             /\ UNCHANGED <<regVars, rdOwner, rdStatus, totalRewardPool, stakedRewards,
                            distributedRewards, slashingHistory, canClaim,
                            slashingCounter, balance, now, callVars, histVars>>
       /\ (ret'.op = "RewardDistribution.unpause" /\ ret'.err = "") =>
             /\ rdPaused /\ ~rdPaused'
             /\ ret'.sender = rdOwner
             /\ UNCHANGED <<regVars, rdOwner, rdStatus, totalRewardPool, stakedRewards,
                            distributedRewards, slashingHistory, canClaim,
                            slashingCounter, balance, now, callVars, histVars>>
       /\ ( /\ ret.op = "DePINManager.pause" /\ ret.err = ""
            /\ ret'.op = "DePINManager.unpause" /\ ret'.sender = regOwner ) =>
             ret'.err = ""
       /\ ( /\ ret.op = "RewardDistribution.pause" /\ ret.err = ""
            /\ ret'.op = "RewardDistribution.unpause" /\ ret'.sender = rdOwner ) =>
             ret'.err = ""]_vars

\* C21 witness: the ledger was unpaused while it held a funded pool and a claimable
\* device, so the round trip ran over a state with something to preserve.
C21_Witness ==
    /\ ret.op = "RewardDistribution.unpause"
    /\ ret.err = ""
    /\ ~rdPaused
    /\ totalRewardPool > 0
    /\ \E d \in deviceExists : canClaim[d]

\* C22: for every registered device, totalRewards never decreases; it changes only
\* in a successful addRewards on that device, called directly or from
\* distributeRewards, and then grows by exactly the amount given (the reward amount
\* of the distribution); a successful claimRewards or slashDevice leaves the
\* totalRewards of every device as it was.
C22_AccruedMonotone ==
    [][/\ \A d \in DOMAIN devices :
            /\ d \in DOMAIN devices'
            /\ devices'[d].totalRewards >= devices[d].totalRewards
            /\ devices'[d].totalRewards # devices[d].totalRewards =>
                  /\ ret'.op \in {"addRewards", "distributeRewards"}
                  /\ ret'.err = ""
                  /\ ret'.id = d
       /\ (ret'.op = "addRewards" /\ ret'.err = "") =>
             devices'[ret'.id].totalRewards = devices[ret'.id].totalRewards + ret'.amount
       /\ (ret'.op = "distributeRewards" /\ ret'.err = "") =>
             devices'[ret'.id].totalRewards =
                 devices[ret'.id].totalRewards + _calculateRewards(ret'.amount)
       /\ (ret'.op \in {"claimRewards", "slashDevice"}) =>
             \A d \in DOMAIN devices : devices'[d].totalRewards = devices[d].totalRewards]_vars

\* C22 witness: a device credited directly and through a distribution was paid by
\* claimRewards and then slashed, and its totalRewards is still the sum credited.
C22_Witness ==
    /\ ret.op = "slashDevice"
    /\ ret.err = ""
    /\ paid[ret.id] > 0
    /\ devices[ret.id].totalRewards = 15 + BASE_REWARD_RATE

\* C23 as stated: a top-level distributeRewards(d, n) by the ledger's owner on an
\* existing device while the ledger is not paused fails on one of the two pool
\* requires if and only if totalRewardPool < distributedRewards + BASE_REWARD_RATE*n,
\* and then distributedRewards, the devices and canClaim are unchanged; on an id
\* outside 1..getTotalDevices() it fails with "Invalid device ID".
C23_PoolExhausted ==
    [][(/\ pc = "idle"
        /\ ret'.op = "distributeRewards"
        /\ ret'.sender = rdOwner) =>
          LET n == ret'.amount
              exhausted == ret'.err \in {"Insufficient reward pool",
                                         "Insufficient rewards available"}
          IN /\ (ret'.id \in deviceExists /\ ~rdPaused) =>
                   /\ exhausted <=>
                        totalRewardPool < distributedRewards + BASE_REWARD_RATE * n
                   /\ exhausted => UNCHANGED <<distributedRewards, devices, canClaim>>
             /\ ~validDevice(ret'.id) => ret'.err = "Invalid device ID"]_vars

\* C23 amended: the equivalence holds where BASE_REWARD_RATE*n and
\* distributedRewards + BASE_REWARD_RATE*n are within the integer range; beyond it
\* the call fails on the first pool require when totalRewardPool < distributedRewards
\* and with the arithmetic Panic(0x11) otherwise.  Every failure leaves
\* distributedRewards, the devices and canClaim unchanged, and an id outside
\* 1..getTotalDevices() fails with "Invalid device ID".
C23_PoolExhaustedInRange ==
    [][(/\ pc = "idle"
        /\ ret'.op = "distributeRewards"
        /\ ret'.sender = rdOwner) =>
          LET n == ret'.amount
              exhausted == ret'.err \in {"Insufficient reward pool",
                                         "Insufficient rewards available"}
              inRange == /\ BASE_REWARD_RATE * n <= MaxUint
                         /\ distributedRewards + BASE_REWARD_RATE * n <= MaxUint
          IN /\ (ret'.id \in deviceExists /\ ~rdPaused /\ inRange) =>
                   exhausted <=>
                      totalRewardPool < distributedRewards + BASE_REWARD_RATE * n
             /\ (ret'.id \in deviceExists /\ ~rdPaused /\ ~inRange) =>
                   /\ totalRewardPool < distributedRewards =>
                         ret'.err = "Insufficient reward pool"
                   /\ totalRewardPool >= distributedRewards =>
                         ret'.err = "Panic(0x11)"
             /\ ret'.err # "" => UNCHANGED <<distributedRewards, devices, canClaim>>
             /\ ~validDevice(ret'.id) => ret'.err = "Invalid device ID"]_vars

\* C23 witness: with 1000 in the pool and 500 distributed, a distribution of 1100
\* to the existing device 1 was refused on the second pool require.
C23_Witness ==
    /\ ret.op = "distributeRewards"
    /\ ret.sender = rdOwner
    /\ ret.id = 1
    /\ ret.amount = 11
    /\ ret.err = "Insufficient rewards available"
    /\ ~rdPaused
    /\ totalRewardPool = MIN_STAKE_AMOUNT
    /\ distributedRewards = 5 * BASE_REWARD_RATE
    /\ devices[1].totalRewards = 5 * BASE_REWARD_RATE
    /\ canClaim[1]

\* C24: getPoolStats never fails: every call returns (totalRewardPool,
\* stakedRewards, distributedRewards, available) with
\* available = totalRewardPool - distributedRewards >= 0 and changes no state.
C24_PoolStatsTotal ==
    [][ret'.op = "getPoolStats" =>
          /\ ret'.err = ""
          /\ ret'.val = totalRewardPool - distributedRewards
          /\ ret'.val >= 0
          /\ getPoolStats_val = <<totalRewardPool, stakedRewards, distributedRewards,
                                  ret'.val>>
          /\ UNCHANGED <<regVars, rdVars, now, callVars, histVars>>]_vars

\* C25 as stated: a top-level slashDevice by the ledger's owner on an existing
\* device while the ledger is not paused fails on an argument require when the
\* percentage is above 100 or the violation type is None, and fails with "No rewards
\* to slash" whenever floor(totalRewards * percentage / 100) = 0; such a failure adds
\* no SlashingEvent and leaves totalRewardPool and canClaim unchanged.
C25_SlashChecks ==
    [][(/\ pc = "idle"
        /\ ret'.op = "slashDevice"
        /\ ret'.sender = rdOwner
        /\ ret'.id \in deviceExists
        /\ ~rdPaused) =>
          LET pct == ret'.amount
              floor == (devices[ret'.id].totalRewards * pct) \div 100
          IN /\ (pct > 100 \/ ret'.kind = "None") =>
                   ret'.err \in {"Invalid slash percentage", "Invalid violation type"}
             /\ floor = 0 => ret'.err = "No rewards to slash"
             /\ ret'.err \in {"Invalid slash percentage", "Invalid violation type",
                              "No rewards to slash"} =>
                   UNCHANGED <<slashingHistory, totalRewardPool, canClaim>>]_vars

\* C25 amended: the argument requires come first.  The call fails with "Invalid
\* slash percentage" when the percentage is above 100, else with "Invalid violation
\* type" when the type is None, and only with both arguments valid does it fail with
\* "No rewards to slash" whenever floor(totalRewards * percentage / 100) = 0, and
\* succeed otherwise; each of these failures adds no SlashingEvent and leaves
\* totalRewardPool and canClaim unchanged.
C25_SlashChecksInOrder ==
    [][(/\ pc = "idle"
        /\ ret'.op = "slashDevice"
        /\ ret'.sender = rdOwner
        /\ ret'.id \in deviceExists
        /\ ~rdPaused) =>
          LET pct == ret'.amount
              floor == (devices[ret'.id].totalRewards * pct) \div 100
          IN /\ pct > 100 => ret'.err = "Invalid slash percentage"
             /\ (pct <= 100 /\ ret'.kind = "None") => ret'.err = "Invalid violation type"
             /\ (pct <= 100 /\ ret'.kind # "None" /\ floor = 0) =>
                   ret'.err = "No rewards to slash"
             /\ (pct <= 100 /\ ret'.kind # "None" /\ floor > 0) => ret'.err = ""
             /\ ret'.err # "" =>
                   UNCHANGED <<slashingHistory, totalRewardPool, canClaim>>]_vars

\* C25 witness: a slash of 6 percent of a device holding 15 was refused with "No
\* rewards to slash": the percentage and the rewards are positive, the share rounds
\* down to 0.
C25_Witness ==
    /\ ret.op = "slashDevice"
    /\ ret.sender = rdOwner
    /\ ret.err = "No rewards to slash"
    /\ ret.amount = 6
    /\ ret.kind = "Offline"
    /\ ret.id \in deviceExists
    /\ devices[ret.id].totalRewards = 15
    /\ totalRewardPool > 0
    /\ ~rdPaused

\* C26: reportMetrics called by the owner of an existing device succeeds if and only
\* if the device's status is Active and the registry is not paused; it fails with
\* "Device not active" when the status is Inactive, Paused or Suspended, paused or
\* not; on an id that was never registered it fails.  After each successful
\* updateDeviceStatus the owner's next report is answered by the new status:
\* rejected with "Device not active" when it is not Active, accepted again (pause
\* permitting) when it is Active.
C26_ReportNeedsActive ==
    [][/\ (/\ pc = "idle"
           /\ ret'.op = "reportMetrics"
           /\ ret'.id \in deviceExists
           /\ ret'.sender = devices[ret'.id].owner) =>
             LET status == devices[ret'.id].status
             IN /\ (ret'.err = "") <=> (status = "Active" /\ ~regPaused)
                /\ status \in {"Inactive", "Paused", "Suspended"} =>
                      ret'.err = "Device not active"
                /\ (status = "Active" /\ regPaused) => ret'.err = "EnforcedPause"
       /\ (ret'.op = "reportMetrics" /\ ret'.id \notin deviceExists) => ret'.err # ""
       /\ (ret'.op = "updateDeviceStatus" /\ ret'.err = "") =>
             \A d \in DeviceIds, a \in Users :
                (ret'.id = d /\ devices[d].owner = a) =>
                   reportMetrics_err(a, d)' =
                      IF ret'.kind # "Active" THEN "Device not active"
                      ELSE IF regPaused THEN "EnforcedPause"
                      ELSE ""]_vars

\* C26 witness: on the unpaused registry the owner's report was rejected with
\* "Device not active" on a device that is Paused now and had a report accepted
\* earlier, while it was Active.
C26_Witness ==
    /\ ret.op = "reportMetrics"
    /\ ret.err = "Device not active"
    /\ ret.id \in deviceExists
    /\ ret.sender = devices[ret.id].owner
    /\ devices[ret.id].status = "Paused"
    /\ Len(deviceMetrics[ret.id]) = 1
    /\ ~regPaused

\* C27: updateDeviceStatus by the registry's owner on an existing device succeeds
\* whatever the current and the new status are (the same status included) and
\* whether the registry is paused or not: the device's status becomes the new one,
\* and no other field of any device, no metric list, no other registry variable and
\* nothing in the ledger changes; on an id that was never registered it fails with
\* "Device does not exist" and changes nothing.
C27_StatusAssignment ==
    [][(/\ pc = "idle"
        /\ ret'.op = "updateDeviceStatus"
        /\ ret'.sender = regOwner) =>
          IF ret'.id \in deviceExists
          THEN /\ ret'.err = ""
               /\ ret'.kind \in DeviceStatus
               /\ devices' = [devices EXCEPT ![ret'.id].status = ret'.kind]
               /\ UNCHANGED <<regOwner, regPaused, deviceCounter, metricsCounter,
                              deviceMetrics, ownerDevices, deviceExists, allDeviceIds,
                              rdVars, callVars, histVars>>
          ELSE /\ ret'.err = "Device does not exist"
               /\ UNCHANGED <<regVars, rdVars, callVars, histVars>>]_vars

\* C27 witness: on the paused registry a device that holds a metric and rewards was
\* set to Inactive.
C27_Witness ==
    /\ ret.op = "updateDeviceStatus"
    /\ ret.err = ""
    /\ ret.kind = "Inactive"
    /\ devices[ret.id].status = "Inactive"
    /\ devices[ret.id].totalRewards > 0
    /\ Len(deviceMetrics[ret.id]) > 0
    /\ regPaused

\* C28: the metric lists are append-only.  A successful reportMetrics(d, value,
\* dataType) puts exactly one record (d, block.timestamp, value, dataType,
\* isVerified = false) at the end of d's list, keeping the records before it, sets
\* lastReportTime of d to block.timestamp and leaves the lists of the other devices
\* as they were; no other step changes any list; every record of every list has
\* isVerified = false.
C28_AppendOnlyMetrics ==
    /\ [](\A d \in DOMAIN deviceMetrics :
            \A k \in 1..Len(deviceMetrics[d]) :
               /\ deviceMetrics[d][k].isVerified = FALSE
               /\ deviceMetrics[d][k].deviceId = d)
    /\ [][IF ret'.op = "reportMetrics" /\ ret'.err = ""
          THEN /\ deviceMetrics' =
                     [deviceMetrics EXCEPT ![ret'.id] =
                         Append(@, [deviceId |-> ret'.id, timestamp |-> now,
                                    value |-> ret'.amount, dataType |-> ret'.kind,
                                    isVerified |-> FALSE])]
               /\ devices'[ret'.id].lastReportTime = now
          ELSE deviceMetrics' = deviceMetrics]_vars

\* C28 witness: a second, different measurement was appended at a later time to a
\* list that already held one.
C28_Witness ==
    /\ ret.op = "reportMetrics"
    /\ ret.err = ""
    /\ Len(deviceMetrics[ret.id]) = 2
    /\ deviceMetrics[ret.id][1].value # deviceMetrics[ret.id][2].value
    /\ deviceMetrics[ret.id][1].timestamp < deviceMetrics[ret.id][2].timestamp
    /\ deviceMetrics[ret.id][2].value = ret.amount
    /\ devices[ret.id].lastReportTime = now

\* C29: a registered device stays registered and keeps its identity.  registerDevice
\* stores the new id, the caller as owner and block.timestamp as registrationTime;
\* after that, whatever step follows, the device still exists and its id, owner and
\* registrationTime are what they were.
C29_DeviceIdentity ==
    /\ [](\A d \in deviceExists : d \in DOMAIN devices /\ devices[d].id = d)
    /\ [][/\ \A d \in deviceExists :
               /\ d \in deviceExists'
               /\ devices'[d].id = devices[d].id
               /\ devices'[d].owner = devices[d].owner
               /\ devices'[d].registrationTime = devices[d].registrationTime
          /\ (ret'.op = "registerDevice" /\ ret'.err = "") =>
               /\ ret'.val \notin deviceExists
               /\ deviceExists' = deviceExists \cup {ret'.val}
               /\ devices'[ret'.val].id = ret'.val
               /\ devices'[ret'.val].owner = ret'.sender
               /\ devices'[ret'.val].registrationTime = now]_vars

\* C29 witness: a device registered by Addr1 at time 0 has since reported, been
\* set to Paused, credited, slashed and paid, at a later time, next to a device of
\* another owner, and is still Addr1's device 1 registered at time 0.
C29_Witness ==
    /\ 1 \in deviceExists
    /\ 2 \in deviceExists
    /\ devices[1].owner = Addr1
    /\ devices[2].owner = Deployer
    /\ devices[1].registrationTime = 0
    /\ devices[2].registrationTime = 1
    /\ now = 1
    /\ devices[1].status = "Paused"
    /\ devices[1].lastReportTime = 1
    /\ devices[1].totalRewards = 15 + BASE_REWARD_RATE
    /\ paid[1] > 0
    /\ Len(slashingHistory[1]) > 0
    /\ regPaused

\* C30 as stated: each successful registerDevice, reportMetrics, updateDeviceStatus,
\* stakeRewards, distributeRewards, slashDevice, claimRewards and withdrawStake
\* emits exactly one event, and a call that fails emits none.
C30_OneNotification ==
    [][/\ ( /\ ret'.op \in {"registerDevice", "reportMetrics", "updateDeviceStatus",
                            "stakeRewards", "distributeRewards", "slashDevice",
                            "claimRewards", "withdrawStake"}
            /\ ret'.err = "" ) => Len(ret'.events) = 1
       /\ ret'.err # "" => ret'.events = <<>>]_vars

\* C30 amended: a successful distributeRewards emits two events, RewardsDistributed
\* (deviceId, amount) from the registry's addRewards and then RewardsDistributed
\* (deviceId, amount) from the ledger; each of the seven other operations emits
\* exactly one event on success, the one of its name with its arguments; a direct
\* addRewards emits the registry's RewardsDistributed; a call that fails, or whose
\* transfer is still in flight, has emitted none.
C30_Notifications ==
    [][/\ (ret'.op = "registerDevice" /\ ret'.err = "") =>
             ret'.events = <<Event("DePINManager", "DeviceRegistered", ret'.val,
                                   ret'.sender, 0, ret'.kind)>>
       /\ (ret'.op = "reportMetrics" /\ ret'.err = "") =>
             ret'.events = <<MetricsReported(ret'.id, ret'.val, ret'.amount, ret'.kind)>>
       /\ (ret'.op = "updateDeviceStatus" /\ ret'.err = "") =>
             ret'.events = <<Event("DePINManager", "DeviceStatusUpdated", ret'.id, "",
                                   0, ret'.kind)>>
       /\ (ret'.op = "stakeRewards" /\ ret'.err = "") =>
             ret'.events = <<Event("RewardDistribution", "RewardsStaked", 0,
                                   ret'.sender, ret'.amount, "")>>
       /\ (ret'.op = "distributeRewards" /\ ret'.err = "") =>
             ret'.events = <<Event("DePINManager", "RewardsDistributed", ret'.id, "",
                                   BASE_REWARD_RATE * ret'.amount, ""),
                             Event("RewardDistribution", "RewardsDistributed", ret'.id,
                                   "", BASE_REWARD_RATE * ret'.amount, "")>>
       /\ (ret'.op = "slashDevice" /\ ret'.err = "") =>
             ret'.events = <<Event("RewardDistribution", "DeviceSlashed", ret'.id, "",
                                   ret'.val, ret'.kind)>>
       /\ (ret'.op = "claimRewards" /\ ret'.err = "") =>
             ret'.events = <<Event("RewardDistribution", "RewardsClaimed", ret'.id,
                                   devices[ret'.id].owner,
                                   devices[ret'.id].totalRewards, "")>>
       /\ (ret'.op = "withdrawStake" /\ ret'.err = "") =>
             ret'.events = <<Event("RewardDistribution", "StakeWithdrawn", 0,
                                   ret'.sender, ret'.amount, "")>>
       /\ (ret'.op = "addRewards" /\ ret'.err = "") =>
             ret'.events = <<Event("DePINManager", "RewardsDistributed", ret'.id, "",
                                   ret'.amount, "")>>
       /\ ret'.err # "" => ret'.events = <<>>]_vars

\* C30 witness: a distribution of 100 to device 1 succeeded and left two events.
C30_Witness ==
    /\ ret.op = "distributeRewards"
    /\ ret.err = ""
    /\ ret.id = 1
    /\ Len(ret.events) = 2
    /\ ret.events[1].emitter = "DePINManager"
    /\ ret.events[2].emitter = "RewardDistribution"
    /\ ret.events[1].amount = BASE_REWARD_RATE
    /\ ret.events[2].amount = BASE_REWARD_RATE

\* C31: as long as emergencyWithdraw has not been called, the value the ledger
\* holds covers the pool figure: balance >= totalRewardPool.
C31_PoolBacked == balance >= totalRewardPool

\* C32: as long as emergencyWithdraw has not been called, a top-level claimRewards
\* by the owner of a device with canClaim set and totalRewards > 0 on the unpaused
\* ledger passes every check, the pool requirement included, and the ledger holds
\* the value its transfer sends.
C32_StaysClaimable ==
    [][/\ (/\ pc = "idle"
           /\ ret'.op = "claimRewards"
           /\ validDevice(ret'.id)
           /\ ret'.sender = DeviceAt(ret'.id).owner
           /\ canClaim[ret'.id]
           /\ DeviceAt(ret'.id).totalRewards > 0
           /\ ~rdPaused) =>
             /\ ret'.err = "pending"
             /\ pc' = "transfer"
       /\ (pc = "transfer" /\ frame.op = "claimRewards") => balance >= frame.amount]_vars

\* C33: a device with canClaim set has totalRewards > 0, so the owner's claim never
\* fails on "No rewards to claim".
C33_ClaimableHasRewards ==
    \A d \in DeviceIds : canClaim[d] => DeviceAt(d).totalRewards > 0

\* C34: for every device the amounts of its slashing events sum to at most its
\* totalRewards, however often it is slashed.
C34_SlashedWithinAccrued ==
    \A d \in DeviceIds : SlashedTotal(d) <= DeviceAt(d).totalRewards

\* C35: the reentrancy lock is never left taken.  Between two transactions the lock
\* is free, whether the last distributeRewards, claimRewards or withdrawStake went
\* through or failed at a check, in the call into the registry or in the transfer,
\* and no call made between transactions is rejected with
\* ReentrancyGuardReentrantCall.
C35_LockReleased ==
    /\ [](Idle => rdStatus = NOT_ENTERED)
    /\ [][Idle => ret'.err # "ReentrancyGuardReentrantCall"]_vars

\* C35 witness: a withdrawStake had taken the lock and its transfer failed; the
\* lock is free and the device owner's claim passes every check.
C35_Witness ==
    /\ Idle
    /\ ret.op = "withdrawStake"
    /\ ret.err = "TransferFailed"
    /\ rdStatus = NOT_ENTERED
    /\ claimRewards_err(Addr1, 1) = ""

\* C36: the registry's indexes agree.  With n = getTotalDevices(), a device exists
\* for id i exactly when 1 <= i <= n, which are the ids validDevice accepts and
\* getDeviceInfo resolves; allDeviceIds is the sequence 1..n; each owner's list in
\* ownerDevices is ascending and holds exactly the ids whose device names that
\* owner, so every id is in one list, once.
C36_IndexConsistency ==
    /\ deviceExists = 1..deviceCounter
    /\ DOMAIN devices = deviceExists
    /\ \A i \in 0..(MaxDevices + 1) : validDevice(i) <=> i \in deviceExists
    /\ allDeviceIds = [i \in 1..deviceCounter |-> i]
    /\ \A o \in Users :
          /\ \A j, k \in DOMAIN ownerDevices[o] :
                j < k => ownerDevices[o][j] < ownerDevices[o][k]
          /\ {ownerDevices[o][j] : j \in DOMAIN ownerDevices[o]} =
                {i \in deviceExists : DeviceAt(i).owner = o}

\* C36 witness: two accounts have registered one device each, the deployer first;
\* the second registration has just returned id 2.
C36_Witness ==
    /\ ret.op = "registerDevice"
    /\ ret.err = ""
    /\ ret.val = 2
    /\ allDeviceIds = <<1, 2>>
    /\ ownerDevices[Deployer] = <<1>>
    /\ ownerDevices[Addr1] = <<2>>
    /\ devices[2].owner = Addr1

====
